---------------------------- MODULE Spec2Model ----------------------------
(***************************************************************************)
(* Model of augment_mcp/auggie.py: run_auggie launches the Auggie CLI as a *)
(* child process, exchanges stdin/stdout/stderr with it through            *)
(* process.communicate, and supervises the exchange with an optional       *)
(* timeout and the caller's cancellation.                                  *)
(*                                                                         *)
(* The asyncio calls the code makes are modelled by what they do at their  *)
(* suspension points.  The one place where supported interpreters differ   *)
(* in a way the code depends on is Process.communicate(None): up to        *)
(* Python 3.11 it leaves stdin open, from 3.12 on it closes it; wait_for   *)
(* up to 3.11 returns the result of a finished future when it is           *)
(* cancelled.  The variable runtime chooses between the two.               *)
(***************************************************************************)
EXTENDS Integers, Sequences, FiniteSets, TLC

\* ------------------------------------------------------------------------
\* Bounds of the model
\* ------------------------------------------------------------------------
NumInvocations == 2     \* run_auggie slots (concurrent invocations)
MaxCancels == 2         \* cancellation requests per call
PipeCap == 1            \* bytes an OS pipe buffer holds
MaxToolCalls == 1       \* tool calls the server handles

Invocations == 1..NumInvocations

\* ------------------------------------------------------------------------
\* Optional values: None, or Some(x)
\* ------------------------------------------------------------------------
None == <<>>
Some(x) == <<x>>
Val(o) == o[1]

\* ------------------------------------------------------------------------
\* Text and bytes.  A str is a sequence of code points, bytes a sequence
\* of 0..255.
\* ------------------------------------------------------------------------
Replacement == 65533


\* str.encode("utf-8") of one code point (strict error handler)
EncodeCodePoint(cp) ==
    IF cp < 128 THEN <<cp>>
    ELSE IF cp < 2048 THEN <<192 + (cp \div 64), 128 + (cp % 64)>>
    ELSE IF cp < 65536
         THEN <<224 + (cp \div 4096), 128 + ((cp \div 64) % 64), 128 + (cp % 64)>>
    ELSE <<240 + (cp \div 262144), 128 + ((cp \div 4096) % 64),
           128 + ((cp \div 64) % 64), 128 + (cp % 64)>>

\* str.encode raises UnicodeEncodeError on a lone surrogate
CanEncode(text) == \A k \in 1..Len(text) : ~(text[k] >= 55296 /\ text[k] <= 57343)

RECURSIVE utf8_encode(_)
utf8_encode(text) ==
    IF text = <<>> THEN <<>>
    ELSE EncodeCodePoint(Head(text)) \o utf8_encode(Tail(text))

IsContinuation(b) == b >= 128 /\ b <= 191

\* bytes.decode("utf-8", errors="replace") on one- and two-byte sequences;
\* every byte that starts no valid sequence becomes U+FFFD.
RECURSIVE utf8_decode(_)
utf8_decode(bs) ==
    IF bs = <<>> THEN <<>>
    ELSE IF bs[1] < 128 THEN <<bs[1]>> \o utf8_decode(Tail(bs))
    ELSE IF bs[1] >= 194 /\ bs[1] <= 223 /\ Len(bs) >= 2 /\ IsContinuation(bs[2])
         THEN <<(bs[1] - 192) * 64 + (bs[2] - 128)>> \o utf8_decode(Tail(Tail(bs)))
    ELSE <<Replacement>> \o utf8_decode(Tail(bs))

Space == 32
Quote == 34

\* str.isspace() for the characters the model uses: tab, newline, vertical
\* tab, form feed, carriage return, the separators 28-31 and space
IsSpace(c) == c \in {9, 10, 11, 12, 13, 28, 29, 30, 31, 32}

RECURSIVE lstrip(_)
lstrip(s) == IF s # <<>> /\ IsSpace(Head(s)) THEN lstrip(Tail(s)) ELSE s

RECURSIVE rstrip(_)
rstrip(s) ==
    IF s # <<>> /\ IsSpace(s[Len(s)]) THEN rstrip(SubSeq(s, 1, Len(s) - 1)) ELSE s

\* str.strip()
strip(s) == rstrip(lstrip(s))

\* sep.join(parts)
RECURSIVE join(_, _)
join(sep, parts) ==
    IF parts = <<>> THEN <<>>
    ELSE IF Len(parts) = 1 THEN parts[1]
    ELSE parts[1] \o sep \o join(sep, Tail(parts))

\* needle in text, for a needle of one character
Contains(text, c) == \E k \in 1..Len(text) : text[k] = c

\* lines 80-81: _quote_arg
quote_arg(arg) == IF Contains(arg, Space) THEN <<Quote>> \o arg \o <<Quote>> ELSE arg

\* a Python value used as a condition: None, "" and an empty list are false
Truthy(o) == o # None /\ Val(o) # <<>>

\* ------------------------------------------------------------------------
\* Inputs of run_auggie drawn by the model
\* ------------------------------------------------------------------------
Instructions == { <<>>, <<Space>>, <<Space, 120, Space>> }
InputTexts == { None, Some(<<>>), Some(<<97>>), Some(<<233>>), Some(<<55296>>) }
Timeouts == { None, Some(2) }

\* paths of executables, as text
AuggieBinary == <<47, 97>>            \* "/a": an Auggie CLI of unknown behaviour
FakeAuggie == <<47, 102>>             \* "/f": tests/fake_auggie.py
SpacedBinary == <<47, 32, 102>>       \* "/ f": the same under a path with a space
HangingBinary == <<47, 104>>          \* "/h": a CLI that hangs
MissingBinary == <<47, 109>>          \* "/m": no such file
DefaultBinary == <<97, 117, 103, 103, 105, 101>>    \* "auggie"
BinaryPaths == { AuggieBinary, MissingBinary }
\* the directory on the search path PATH, and the CLI installed in it
Slash == 47
PathDirectory == <<47, 98>>                                     \* "/b"
InstalledAuggie == PathDirectory \o <<Slash>> \o DefaultBinary   \* "/b/auggie"
\* executables present in the file system
Executables == { AuggieBinary, FakeAuggie, SpacedBinary, HangingBinary, InstalledAuggie }

\* the file create_subprocess_exec executes for a program name: the name
\* itself when it has a slash, else the file of that name on the search path
which(binary) ==
    IF Contains(binary, Slash) THEN binary
    ELSE PathDirectory \o <<Slash>> \o binary

\* command-line flags, as text
FlagCompact == <<45, 45, 99, 111, 109, 112, 97, 99, 116>>       \* "--compact"
FlagGithubApiToken ==                                           \* "--github-api-token"
    <<45, 45, 103, 105, 116, 104, 117, 98, 45, 97, 112, 105, 45, 116, 111, 107, 101, 110>>
FlagPrint == <<45, 45, 112, 114, 105, 110, 116>>                \* "--print"
FlagFail == <<45, 45, 102, 97, 105, 108>>                       \* "--fail"

\* the process-wide environment os.environ: the two variables run_auggie reads
NoEnviron == [AUGGIE_PATH |-> None, AUGMENT_SESSION_AUTH |-> None]
Environments ==
    [AUGGIE_PATH : {None, Some(FakeAuggie)},
     AUGMENT_SESSION_AUTH : {None, Some(<<112>>)}]

\* keyword parameters of run_auggie (lines 84-94)
RunAuggieParams ==
    {"instruction", "input_text", "compact", "github_api_token", "extra_args",
     "timeout_seconds", "session_token", "binary_path"}

\* The keyword arguments of one call of run_auggie: the values of the
\* parameters run_auggie declares, and in keywords the names of the further
\* keyword arguments the caller passes.
CallOptions ==
    [instruction : Instructions, input_text : InputTexts,
     timeout_seconds : Timeouts, binary_path : {Some(b) : b \in BinaryPaths},
     compact : {None}, github_api_token : {None}, extra_args : {None},
     session_token : {None}, keywords : {{}}]

\* a call of the fake CLI with every option left out
BaseOptions ==
    [instruction |-> <<120, 32, 121>>, input_text |-> None,
     timeout_seconds |-> None, binary_path |-> Some(FakeAuggie),
     compact |-> None, github_api_token |-> None, extra_args |-> None,
     session_token |-> None, keywords |-> {}]

\* Calls that vary the options around BaseOptions: the arguments, the
\* binary, the session token, undeclared keywords, the exchange.
OptionCases ==
    {[BaseOptions EXCEPT !.instruction = ins, !.extra_args = e] :
        ins \in {<<120, 32, 121>>, <<120, 9, 121>>},
        e \in {None, Some(<<>>), Some(<<FlagFail>>),
               Some(<<(<<97, 32, 98>>), (<<99>>)>>)}}
    \cup {[BaseOptions EXCEPT !.compact = c, !.github_api_token = g] :
             c \in {None, Some(TRUE), Some(FALSE)},
             g \in {None, Some(<<>>), Some(<<103>>)}}
    \cup {[BaseOptions EXCEPT !.binary_path = b] :
             b \in {None, Some(<<>>), Some(SpacedBinary), Some(MissingBinary)}}
    \cup {[BaseOptions EXCEPT !.session_token = t] :
             t \in {Some(<<>>), Some(<<115>>)}}
    \cup {[BaseOptions EXCEPT !.keywords = {"workspace_root", "model"},
                              !.extra_args = Some(<<(<<99>>)>>)]}
    \cup {[BaseOptions EXCEPT !.input_text = Some(<<97>>), !.timeout_seconds = t,
                              !.extra_args = e] :
             t \in Timeouts, e \in {None, Some(<<FlagFail>>)}}

\* ------------------------------------------------------------------------
\* Child programs: what the launched executable does.  A program is a
\* sequence of operations on its three pipes, and its reaction to SIGTERM.
\* ------------------------------------------------------------------------
ReadAll == [op |-> "readall", b |-> 0]   \* sys.stdin.read(): read to end-of-input
Read1 == [op |-> "read", b |-> 0]        \* read one byte (or see end-of-input)
Out(b) == [op |-> "stdout", b |-> b]     \* write one byte to stdout
Err(b) == [op |-> "stderr", b |-> b]     \* write one byte to stderr
Exit(c) == [op |-> "exit", b |-> c]      \* exit with code c
Sleep == [op |-> "sleep", b |-> 0]       \* block until signalled
Echo == [op |-> "echo", b |-> 0]         \* write everything read from stdin to stdout

Programs ==
    << \* 1: fake_auggie --print: read stdin to the end, answer with a header
       \*    and the context read, exit 0
       [code |-> <<ReadAll, Out(65), Echo, Exit(0)>>, ignoreTerm |-> FALSE],
       \* 2: fake_auggie --fail: message on stderr, exit 2
       [code |-> <<Err(69), Exit(2)>>, ignoreTerm |-> FALSE],
       \* 3: more output than a pipe holds before reading its input
       [code |-> <<Out(65), Out(66), Err(69), ReadAll, Exit(0)>>, ignoreTerm |-> FALSE],
       \* 4: never reads its input; writes a two-byte character and an invalid byte
       [code |-> <<Out(195), Out(169), Out(255), Exit(0)>>, ignoreTerm |-> FALSE],
       \* 5: reads only the first byte of its input, fails
       [code |-> <<Read1, Err(69), Out(65), Exit(1)>>, ignoreTerm |-> FALSE],
       \* 6: sleeps, dies on SIGTERM
       [code |-> <<Sleep>>, ignoreTerm |-> FALSE],
       \* 7: sleeps and ignores SIGTERM
       [code |-> <<Out(65), Sleep>>, ignoreTerm |-> TRUE] >>

ProgramIds == 1..Len(Programs)

\* bytes a program has written to a stream once its first n operations
\* ran, having read the bytes read from its stdin
RECURSIVE Written(_, _, _, _)
Written(code, n, stream, read) ==
    IF n = 0 THEN <<>>
    ELSE Written(code, n - 1, stream, read) \o
         (IF code[n].op = stream THEN <<code[n].b>>
          ELSE IF code[n].op = "echo" /\ stream = "stdout" THEN read
          ELSE <<>>)

\* fake_auggie._parse_args: the arguments it does not know
RECURSIVE extras(_)
extras(argv) ==
    IF argv = <<>> THEN <<>>
    ELSE IF argv[1] = FlagCompact THEN extras(Tail(argv))
    ELSE IF argv[1] \in {FlagGithubApiToken, FlagPrint}
         THEN extras(IF Len(argv) >= 2 THEN Tail(Tail(argv)) ELSE <<>>)
    ELSE <<argv[1]>> \o extras(Tail(argv))

\* what an executable may do when started with the arguments argv: the
\* fake CLI (also the one installed as auggie on the search path) fails
\* when asked to, the hanging CLI sleeps, the Auggie CLI may do anything
ProgramsOf(binary, argv) ==
    IF binary = AuggieBinary THEN ProgramIds
    ELSE IF binary = HangingBinary THEN {6}
    ELSE IF Contains(extras(argv), FlagFail) THEN {2}
    ELSE {1}

SIGTERM == 15
SIGKILL == 9

\* ------------------------------------------------------------------------
\* State
\* ------------------------------------------------------------------------
VARIABLES
    runtime,            \* asyncio generation of the interpreter: "py311" or "py312"
    os_environ,         \* the environment of the server process
    metrics,            \* telemetry._metrics
    tool_result,        \* per slot: what the tool call that made the call returned or raised
    prev,               \* per slot: the previous call, if it found no executable
    pc,                 \* per slot: where run_auggie is suspended
    opts,               \* per slot: the call's options
    process,            \* per slot: the child process and its three pipes
    communicate_task,   \* per slot: the task running _communicate
    outcome,            \* per slot: what run_auggie returned or raised
    obs,                \* per slot: timeout and cancellations seen by the call
    auggie_history,     \* telemetry._auggie_history
    files,              \* the settings and command files the server reads and writes
    request,            \* the resource read, prompt or configure call in progress
    configured,         \* per directory: the permissions last configured with success
    recorded            \* per telemetry list: everything recorded since the last reset

\* the state of the server beside run_auggie and telemetry._metrics
serverVars == <<auggie_history, files, request, configured, recorded>>

vars == <<runtime, os_environ, metrics, tool_result, prev, pc, opts, process, communicate_task,
          outcome, obs, serverVars>>

Streams == {"stdout", "stderr"}

NoOpts == [instruction |-> <<>>, input_text |-> None, timeout_seconds |-> None,
           binary_path |-> None, compact |-> None, github_api_token |-> None,
           extra_args |-> None, session_token |-> None, keywords |-> {},
           binary |-> <<>>, args |-> <<>>, command |-> <<>>, env |-> NoEnviron,
           workspace_root |-> None]

NoProcess == [state |-> "none", prog |-> 0, ip |-> 0, status |-> 0,
              pipe |-> [stdin |-> <<>>, stdout |-> <<>>, stderr |-> <<>>],
              stdin_closed |-> FALSE, pending |-> {}, signals |-> <<>>,
              exe |-> <<>>, argv |-> <<>>, env |-> NoEnviron, stdin_read |-> <<>>,
              stdin_eof |-> FALSE, echoed |-> 0]

NoTask == [state |-> "none", stage |-> "gather", feeder |-> "done",
           to_write |-> <<>>, buf |-> [stdout |-> <<>>, stderr |-> <<>>],
           eof |-> [stdout |-> FALSE, stderr |-> FALSE]]

NoOutcome == [kind |-> "none", exit_code |-> 0, stdout |-> <<>>, stderr |-> <<>>,
              command |-> <<>>, timeout_seconds |-> None, binary_path |-> <<>>,
              message |-> ""]

NoObs == [timed_out |-> FALSE, cancel_at |-> <<>>, spawns |-> 0]

NoPrev == [kind |-> "none", binary |-> <<>>]

NoToolResult == [kind |-> "none", message |-> <<>>]

NoMetrics == [tools_called |-> 0, resources_read |-> 0, prompts_requested |-> 0,
              tool_durations |-> <<>>, resource_durations |-> <<>>,
              prompt_durations |-> <<>>]

\* ------------------------------------------------------------------------
\* Files, settings and command directories of the server
\* ------------------------------------------------------------------------
Home == "/home"

Workspace == "/w"

\* the directories that exist
Directories == {Workspace, Home}

\* workspace arguments of a request: a directory, the home shorthand, a missing one
WorkspaceArgs == {Workspace, "~", "/x"}

expanduser(path) == IF path = "~" THEN Home ELSE path

\* Python values that pass through json
PyNone == [t |-> "none", s |-> "", keys |-> <<>>, items |-> <<>>]

PyStr(s) == [t |-> "str", s |-> s, keys |-> <<>>, items |-> <<>>]

PyList(items) == [t |-> "list", s |-> "", keys |-> <<>>, items |-> items]

PyDict(keys, items) == [t |-> "dict", s |-> "", keys |-> keys, items |-> items]

\* JSON text as its tokens; "ws" is the white space of indent=2 and of the final newline
Tok(t) == [t |-> t, s |-> ""]

RECURSIVE json_dumps(_), dumps_items(_, _), dumps_members(_, _, _)
json_dumps(v) ==
    CASE v.t = "none" -> <<Tok("null")>>
      [] v.t = "str" -> <<[t |-> "str", s |-> v.s]>>
      [] v.t = "list" ->
            IF v.items = <<>> THEN <<Tok("["), Tok("]")>>
            ELSE <<Tok("["), Tok("ws")>> \o dumps_items(v.items, 1) \o <<Tok("ws"), Tok("]")>>
      [] v.t = "dict" ->
            IF v.keys = <<>> THEN <<Tok("{"), Tok("}")>>
            ELSE <<Tok("{"), Tok("ws")>> \o dumps_members(v.keys, v.items, 1)
                     \o <<Tok("ws"), Tok("}")>>

dumps_items(items, k) ==
    IF k > Len(items) THEN <<>>
    ELSE (IF k > 1 THEN <<Tok(","), Tok("ws")>> ELSE <<>>)
             \o json_dumps(items[k]) \o dumps_items(items, k + 1)

dumps_members(keys, items, k) ==
    IF k > Len(keys) THEN <<>>
    ELSE (IF k > 1 THEN <<Tok(","), Tok("ws")>> ELSE <<>>)
             \o <<[t |-> "str", s |-> keys[k]], Tok(":"), Tok("ws")>>
             \o json_dumps(items[k]) \o dumps_members(keys, items, k + 1)

JSONDecodeError == [ok |-> FALSE, v |-> PyNone, rest |-> <<>>]

Parsed(v, rest) == [ok |-> TRUE, v |-> v, rest |-> rest]

RECURSIVE parse_value(_), parse_items(_, _), parse_members(_, _, _)
parse_value(ts) ==
    IF ts = <<>> THEN JSONDecodeError
    ELSE CASE ts[1].t = "null" -> Parsed(PyNone, Tail(ts))
           [] ts[1].t = "str" -> Parsed(PyStr(ts[1].s), Tail(ts))
           [] ts[1].t = "[" ->
                 IF Len(ts) >= 2 /\ ts[2].t = "]"
                 THEN Parsed(PyList(<<>>), Tail(Tail(ts)))
                 ELSE parse_items(Tail(ts), <<>>)
           [] ts[1].t = "{" ->
                 IF Len(ts) >= 2 /\ ts[2].t = "}"
                 THEN Parsed(PyDict(<<>>, <<>>), Tail(Tail(ts)))
                 ELSE parse_members(Tail(ts), <<>>, <<>>)
           [] OTHER -> JSONDecodeError

parse_items(ts, acc) ==
    LET e == parse_value(ts)
    IN  IF ~e.ok \/ e.rest = <<>> THEN JSONDecodeError
        ELSE IF e.rest[1].t = "," THEN parse_items(Tail(e.rest), Append(acc, e.v))
        ELSE IF e.rest[1].t = "]" THEN Parsed(PyList(Append(acc, e.v)), Tail(e.rest))
        ELSE JSONDecodeError

parse_members(ts, keys, items) ==
    IF Len(ts) < 2 \/ ts[1].t # "str" \/ ts[2].t # ":" THEN JSONDecodeError
    ELSE LET e == parse_value(Tail(Tail(ts)))
         IN  IF ~e.ok \/ e.rest = <<>> THEN JSONDecodeError
             ELSE IF e.rest[1].t = ","
                  THEN parse_members(Tail(e.rest), Append(keys, ts[1].s), Append(items, e.v))
             ELSE IF e.rest[1].t = "}"
                  THEN Parsed(PyDict(Append(keys, ts[1].s), Append(items, e.v)), Tail(e.rest))
             ELSE JSONDecodeError

json_loads(text) ==
    LET r == parse_value(SelectSeq(text, LAMBDA tok : tok.t # "ws"))
    IN  IF r.ok /\ r.rest = <<>> THEN r ELSE JSONDecodeError

\* _read_json_file: an empty file reads as an empty object
read_json_file(raw) == json_loads(IF raw = <<>> THEN <<Tok("{"), Tok("}")>> ELSE raw)

\* dict.get(key, default)
dict_get(d, key, default) ==
    IF \E k \in 1..Len(d.keys) : d.keys[k] = key
    THEN d.items[CHOOSE k \in 1..Len(d.keys) : d.keys[k] = key]
    ELSE default

\* one permission rule, and the values callers pass as permissions
Rule == PyDict(<<"tool-name", "permission">>,
               <<PyStr("view"), PyDict(<<"type">>, <<PyStr("allow")>>)>>)

Permissions == {PyList(<<>>), PyList(<<Rule>>), PyList(<<Rule, Rule>>), Rule}

Scopes == {"project", "user", "global"}

\* the files a commands directory can hold, in the order of their sorted paths
CommandFiles ==
    << [name |-> "a", suffix |-> ".md", namespace |-> None, is_file |-> TRUE],
       [name |-> "b", suffix |-> ".md", namespace |-> None, is_file |-> FALSE],
       [name |-> "c", suffix |-> ".txt", namespace |-> None, is_file |-> TRUE],
       [name |-> "d", suffix |-> ".md", namespace |-> Some("sub"), is_file |-> TRUE] >>

\* settings: the text of <dir>/.augment/settings.json, None when there is no file
\* commands: the members of <dir>/.augment/commands, None when there is no directory
NoFiles == [settings |-> [d \in Directories |-> None],
            commands |-> [d \in Directories |-> None]]

\* a project with commands; the home directory holds one command and a broken settings file
BrokenHome == [settings |-> [d \in Directories |-> IF d = Home THEN Some(<<Tok("{")>>) ELSE None],
               commands |-> [d \in Directories |->
                                IF d = Home THEN Some({1}) ELSE Some({1, 2, 3, 4})]]

\* a home directory whose settings file holds a list, and an empty commands directory
ListHome == [settings |-> [d \in Directories |->
                               IF d = Home THEN Some(json_dumps(PyList(<<>>))) ELSE None],
             commands |-> [d \in Directories |-> IF d = Home THEN None ELSE Some({})]]

NoResult == [kind |-> "none", exists |-> FALSE, tool_permissions |-> PyNone,
             commands |-> <<>>, total |-> 0, path |-> <<>>]

NoRequest == [op |-> "none", kind |-> "none", pc |-> "idle", workspace |-> "",
              entries |-> <<>>, result |-> NoResult]

NoRecorded == [tool |-> <<>>, resource |-> <<>>, prompt |-> <<>>, runs |-> <<>>, calls |-> 0]

\* a child was started for the call
Started(i) == process[i].state # "none"

\* process.returncode: set once the event loop has collected the exit status
returncode(p) == IF p.state = "reaped" THEN Some(p.status) ELSE None

Alive(p) == p.state = "running"

\* communicate_task.done()
TaskDone(t) == t.state \in {"done", "cancelled"}

\* telemetry.py lines 19, 53-71: record_operation
METRIC_HISTORY_LIMIT == 1000

\* the trimming of the history that keeps the oldest entries
Capped_KeepsOldest(durations) ==
    IF Len(durations) > METRIC_HISTORY_LIMIT
    THEN SubSeq(durations, 1, METRIC_HISTORY_LIMIT)
    ELSE durations

Capped(durations) ==
    IF Len(durations) > METRIC_HISTORY_LIMIT
    THEN SubSeq(durations, Len(durations) - METRIC_HISTORY_LIMIT + 1, Len(durations))
    ELSE durations

record_operation(m, kind, duration_ms) ==
    CASE kind = "tool" ->
           [m EXCEPT !.tools_called = @ + 1,
                     !.tool_durations = Capped(Append(@, duration_ms))]
      [] kind = "resource" ->
           [m EXCEPT !.resources_read = @ + 1,
                     !.resource_durations = Capped(Append(@, duration_ms))]
      [] kind = "prompt" ->
           [m EXCEPT !.prompts_requested = @ + 1,
                     !.prompt_durations = Capped(Append(@, duration_ms))]

\* the state common to every start: no call is in progress
NoCalls ==
    /\ tool_result = [i \in Invocations |-> NoToolResult]
    /\ prev = [i \in Invocations |-> NoPrev]
    /\ opts = [i \in Invocations |-> NoOpts]
    /\ process = [i \in Invocations |-> NoProcess]
    /\ communicate_task = [i \in Invocations |-> NoTask]
    /\ outcome = [i \in Invocations |-> NoOutcome]
    /\ obs = [i \in Invocations |-> NoObs]
    /\ request = NoRequest
    /\ configured = [d \in Directories |-> None]

\* a server that has just started, with nothing recorded and no settings
InitCalls ==
    /\ NoCalls
    /\ metrics = NoMetrics
    /\ auggie_history = <<>>
    /\ files = NoFiles
    /\ recorded = NoRecorded

\* the server runs in one of the environments; one caller at a time
OptionsInit ==
    /\ runtime \in {"py311", "py312"}
    /\ os_environ \in Environments
    /\ pc = [i \in Invocations |-> IF i = 1 THEN "idle" ELSE "off"]
    /\ InitCalls

\* two callers use run_auggie at the same time
ConcurrentInit ==
    /\ runtime \in {"py311", "py312"}
    /\ os_environ = NoEnviron
    /\ pc = [i \in Invocations |-> IF i <= 2 THEN "idle" ELSE "off"]
    /\ InitCalls

\* one caller at a time, in a server with neither variable set
Init ==
    /\ runtime \in {"py311", "py312"}
    /\ os_environ = NoEnviron
    /\ pc = [i \in Invocations |-> IF i = 1 THEN "idle" ELSE "off"]
    /\ InitCalls

\* ------------------------------------------------------------------------
\* Exceptions and results of run_auggie
\* ------------------------------------------------------------------------
AuggieError(message) == [NoOutcome EXCEPT !.kind = "AuggieError", !.message = message]

AuggieNotInstalledError(binary_path) ==
    [NoOutcome EXCEPT !.kind = "AuggieNotInstalledError", !.binary_path = binary_path]

AuggieTimeoutError(timeout_seconds) ==
    [NoOutcome EXCEPT !.kind = "AuggieTimeoutError",
                      !.timeout_seconds = Some(timeout_seconds)]

AuggieAbortedError == [NoOutcome EXCEPT !.kind = "AuggieAbortedError"]

AuggieRunResult(stdout, stderr, exit_code, command) ==
    [NoOutcome EXCEPT !.kind = "AuggieRunResult", !.stdout = stdout,
                      !.stderr = stderr, !.exit_code = exit_code,
                      !.command = command]

AuggieCommandError(result) == [result EXCEPT !.kind = "AuggieCommandError"]

\* exceptions that leave run_auggie as they are
TypeError == [NoOutcome EXCEPT !.kind = "TypeError"]
CancelledError == [NoOutcome EXCEPT !.kind = "CancelledError"]
ProcessLookupError == [NoOutcome EXCEPT !.kind = "ProcessLookupError"]
UnicodeEncodeError == [NoOutcome EXCEPT !.kind = "UnicodeEncodeError"]

\* ------------------------------------------------------------------------
\* run_auggie up to the launch
\* ------------------------------------------------------------------------
\* default_binary_path without the AUGGIE_PATH override
default_binary_path_NoOverride(environ) == DefaultBinary

\* lines 76-77: _default_binary_path
default_binary_path(environ) ==
    IF environ.AUGGIE_PATH # None THEN Val(environ.AUGGIE_PATH) ELSE DefaultBinary

\* lines 102-105: the child's environment, a copy of os.environ with the
\* session token of the call
child_env(session_token, environ) ==
    LET token == IF Truthy(session_token) THEN session_token
                 ELSE environ.AUGMENT_SESSION_AUTH
    IN  IF Truthy(token) THEN [environ EXCEPT !.AUGMENT_SESSION_AUTH = token]
        ELSE environ

\* lines 107-114: the arguments of the child
build_args(o, instruction) ==
    (IF o.compact = Some(TRUE) THEN <<FlagCompact>> ELSE <<>>)
    \o (IF Truthy(o.github_api_token)
        THEN <<FlagGithubApiToken, Val(o.github_api_token)>> ELSE <<>>)
    \o (IF Truthy(o.extra_args) THEN Val(o.extra_args) ELSE <<>>)
    \o <<FlagPrint, instruction>>

\* line 116: the command line, for diagnostics
command_of(binary, args) ==
    join(<<Space>>, <<quote_arg(binary)>> \o [k \in 1..Len(args) |-> quote_arg(args[k])])

\* the options of a call as run_auggie holds them, before anything is derived
Given(o, workspace_root) ==
    [NoOpts EXCEPT !.instruction = o.instruction, !.input_text = o.input_text,
                   !.timeout_seconds = o.timeout_seconds,
                   !.binary_path = o.binary_path, !.compact = o.compact,
                   !.github_api_token = o.github_api_token,
                   !.extra_args = o.extra_args,
                   !.session_token = o.session_token, !.keywords = o.keywords,
                   !.workspace_root = workspace_root]

\* RunAuggie putting the session token into os.environ itself
RunAuggie_MutatesEnviron(i, o, workspace_root) ==
    /\ os_environ' = child_env(o.session_token, os_environ)
    /\ LET stripped == strip(o.instruction)
           binary == IF Truthy(o.binary_path) THEN Val(o.binary_path)
                     ELSE default_binary_path(os_environ)
           args == build_args(o, stripped)
       IN  IF ~(o.keywords \subseteq RunAuggieParams)
           THEN /\ pc' = [pc EXCEPT ![i] = "done"]
                /\ outcome' = [outcome EXCEPT ![i] = TypeError]
                /\ opts' = [opts EXCEPT ![i] = Given(o, workspace_root)]
                /\ prev' = [prev EXCEPT ![i] = NoPrev]
           ELSE IF stripped = <<>>
           THEN /\ pc' = [pc EXCEPT ![i] = "done"]
                /\ outcome' = [outcome EXCEPT ![i] =
                       AuggieError("Instruction is required for Auggie invocations")]
                /\ opts' = [opts EXCEPT ![i] = NoOpts]
                /\ prev' = [prev EXCEPT ![i] = NoPrev]
           ELSE /\ pc' = [pc EXCEPT ![i] = "spawn"]
                /\ outcome' = [outcome EXCEPT ![i] = NoOutcome]
                /\ opts' = [opts EXCEPT ![i] =
                       [Given(o, workspace_root) EXCEPT
                           !.instruction = stripped, !.binary = binary,
                           !.args = args, !.command = command_of(binary, args),
                           !.env = child_env(o.session_token, os_environ)]]
                /\ prev' = [prev EXCEPT ![i] =
                       IF @.binary = binary THEN @ ELSE NoPrev]

\* RunAuggie taking the instruction as given, without stripping it
RunAuggie_NoStrip(i, o, workspace_root) ==
    /\ os_environ' = os_environ
    /\ LET stripped == o.instruction
           binary == IF Truthy(o.binary_path) THEN Val(o.binary_path)
                     ELSE default_binary_path(os_environ)
           args == build_args(o, stripped)
       IN  IF ~(o.keywords \subseteq RunAuggieParams)
           THEN /\ pc' = [pc EXCEPT ![i] = "done"]
                /\ outcome' = [outcome EXCEPT ![i] = TypeError]
                /\ opts' = [opts EXCEPT ![i] = Given(o, workspace_root)]
                /\ prev' = [prev EXCEPT ![i] = NoPrev]
           ELSE IF stripped = <<>>
           THEN /\ pc' = [pc EXCEPT ![i] = "done"]
                /\ outcome' = [outcome EXCEPT ![i] =
                       AuggieError("Instruction is required for Auggie invocations")]
                /\ opts' = [opts EXCEPT ![i] = NoOpts]
                /\ prev' = [prev EXCEPT ![i] = NoPrev]
           ELSE /\ pc' = [pc EXCEPT ![i] = "spawn"]
                /\ outcome' = [outcome EXCEPT ![i] = NoOutcome]
                /\ opts' = [opts EXCEPT ![i] =
                       [Given(o, workspace_root) EXCEPT
                           !.instruction = stripped, !.binary = binary,
                           !.args = args, !.command = command_of(binary, args),
                           !.env = child_env(o.session_token, os_environ)]]
                /\ prev' = [prev EXCEPT ![i] =
                       IF @.binary = binary THEN @ ELSE NoPrev]

\* lines 84-116: run_auggie is called with the keyword arguments o.  A
\* keyword run_auggie does not declare is a TypeError of the call itself;
\* else strip and check the instruction, choose the binary, copy the
\* environment, build the arguments and the command line.  os.environ is
\* only read.
RunAuggie(i, o, workspace_root) ==
    /\ os_environ' = os_environ
    /\ LET stripped == strip(o.instruction)
           binary == IF Truthy(o.binary_path) THEN Val(o.binary_path)
                     ELSE default_binary_path(os_environ)
           args == build_args(o, stripped)
       IN  IF ~(o.keywords \subseteq RunAuggieParams)
           THEN /\ pc' = [pc EXCEPT ![i] = "done"]
                /\ outcome' = [outcome EXCEPT ![i] = TypeError]
                /\ opts' = [opts EXCEPT ![i] = Given(o, workspace_root)]
                /\ prev' = [prev EXCEPT ![i] = NoPrev]
           ELSE IF stripped = <<>>
           THEN /\ pc' = [pc EXCEPT ![i] = "done"]
                /\ outcome' = [outcome EXCEPT ![i] =
                       AuggieError("Instruction is required for Auggie invocations")]
                /\ opts' = [opts EXCEPT ![i] = NoOpts]
                /\ prev' = [prev EXCEPT ![i] = NoPrev]
           ELSE /\ pc' = [pc EXCEPT ![i] = "spawn"]
                /\ outcome' = [outcome EXCEPT ![i] = NoOutcome]
                /\ opts' = [opts EXCEPT ![i] =
                       [Given(o, workspace_root) EXCEPT
                           !.instruction = stripped, !.binary = binary,
                           !.args = args, !.command = command_of(binary, args),
                           !.env = child_env(o.session_token, os_environ)]]
                /\ prev' = [prev EXCEPT ![i] =
                       IF @.binary = binary THEN @ ELSE NoPrev]

\* Calls made while another call is in progress.  The first caller runs the
\* fake CLI with input and a timeout, answering or failing; the second
\* runs a CLI that hangs, or one that does not exist, without timeout.
ConcurrentCases(i) ==
    IF i = 1
    THEN {[BaseOptions EXCEPT !.input_text = Some(<<97>>),
                              !.timeout_seconds = Some(2),
                              !.extra_args = Some(<<FlagFail>>)]}
    ELSE {[BaseOptions EXCEPT !.binary_path = Some(b)] :
             b \in {HangingBinary, MissingBinary}}

\* a caller calls run_auggie
Call(i) ==
    /\ pc[i] = "idle"
    /\ \E o \in CallOptions : RunAuggie(i, o, None)
    /\ UNCHANGED <<runtime, metrics, serverVars, tool_result, process, communicate_task, obs>>

\* a caller calls run_auggie with one of the option cases
OptionsCall(i) ==
    /\ pc[i] = "idle"
    /\ \E o \in OptionCases : RunAuggie(i, o, None)
    /\ UNCHANGED <<runtime, metrics, serverVars, tool_result, process, communicate_task, obs>>

\* server.py lines 764-804: the tool augment_review.  It calls run_auggie
\* with the keywords workspace_root and model besides the declared ones, so
\* the call of line 791 raises TypeError before _execute_with_error_handling
\* is entered; the error leaves the tool through _metric_scope (lines
\* 45-54), which records the operation.
AugmentReview(i) ==
    /\ pc[i] = "idle"
    /\ metrics.tools_called < MaxToolCalls
    /\ \E workspace_root \in {None, Some(<<47, 119>>)},
          extra_args \in {None, Some(<<FlagFail>>)} :
          RunAuggie(i, [BaseOptions EXCEPT
                           !.binary_path = None, !.extra_args = extra_args,
                           !.keywords = {"workspace_root", "model"}],
                    workspace_root)
    /\ tool_result' = [tool_result EXCEPT ![i] =
                           [kind |-> "TypeError", message |-> <<>>]]
    /\ metrics' = record_operation(metrics, "tool", 0)
    /\ recorded' = [recorded EXCEPT !.tool = Append(@, 0)]
    /\ UNCHANGED <<auggie_history, files, request, configured>>
    /\ UNCHANGED <<runtime, process, communicate_task, obs>>

\* a caller calls run_auggie while other calls may be in progress
ConcurrentCall(i) ==
    /\ pc[i] = "idle"
    /\ \E o \in ConcurrentCases(i) : RunAuggie(i, o, None)
    /\ UNCHANGED <<runtime, metrics, serverVars, tool_result, process, communicate_task, obs>>

\* SpawnNotFound with the FileNotFoundError handled like any other OSError
SpawnNotFound_AsOSError(i) ==
    /\ pc[i] = "spawn"
    /\ which(opts[i].binary) \notin Executables
    /\ pc' = [pc EXCEPT ![i] = "done"]
    /\ outcome' = [outcome EXCEPT ![i] = AuggieError("Failed to start Auggie CLI")]
    /\ obs' = [obs EXCEPT ![i].spawns = @ + 1]
    /\ UNCHANGED <<runtime, os_environ, metrics, serverVars, tool_result, prev, opts, process,
                   communicate_task>>

\* lines 118-128: the executable does not exist
SpawnNotFound(i) ==
    /\ pc[i] = "spawn"
    /\ which(opts[i].binary) \notin Executables
    /\ pc' = [pc EXCEPT ![i] = "done"]
    /\ outcome' = [outcome EXCEPT ![i] = AuggieNotInstalledError(opts[i].binary)]
    /\ obs' = [obs EXCEPT ![i].spawns = @ + 1]
    /\ UNCHANGED <<runtime, os_environ, metrics, serverVars, tool_result, prev, opts, process,
                   communicate_task>>

\* SpawnOSError trying the launch again
SpawnOSError_Retry(i) ==
    /\ pc[i] = "spawn"
    /\ which(opts[i].binary) \in Executables
    /\ obs' = [obs EXCEPT ![i].spawns = @ + 1]
    /\ UNCHANGED <<runtime, os_environ, metrics, serverVars, tool_result, prev, pc, opts,
                   process, communicate_task, outcome>>

\* lines 129-130: the OS refuses to start the executable
SpawnOSError(i) ==
    /\ pc[i] = "spawn"
    /\ which(opts[i].binary) \in Executables
    /\ pc' = [pc EXCEPT ![i] = "done"]
    /\ outcome' = [outcome EXCEPT ![i] = AuggieError("Failed to start Auggie CLI")]
    /\ obs' = [obs EXCEPT ![i].spawns = @ + 1]
    /\ UNCHANGED <<runtime, os_environ, metrics, serverVars, tool_result, prev, opts, process,
                   communicate_task>>

\* input_bytes encoding the text as Latin-1
input_bytes_Latin1(input_text) ==
    IF input_text # None /\ Val(input_text) # <<>>
    THEN Some(Val(input_text))
    ELSE None

\* line 132: input_bytes = input_text.encode("utf-8") if input_text else None
input_bytes(input_text) ==
    IF input_text # None /\ Val(input_text) # <<>>
    THEN Some(utf8_encode(Val(input_text)))
    ELSE None

\* Process.communicate(input): the coroutine that handles stdin.  Before
\* Python 3.12 communicate(None) does not touch stdin at all.
Feeder(input, rt) ==
    IF input = None /\ rt = "py311" THEN "noop" ELSE "writing"

\* lines 119-141: the child starts; the input is encoded and the task that
\* runs _communicate is created
SpawnStarted(i) ==
    /\ pc[i] = "spawn"
    /\ which(opts[i].binary) \in Executables
    /\ \E prog \in ProgramsOf(which(opts[i].binary), opts[i].args) :
          process' = [process EXCEPT ![i] =
              [NoProcess EXCEPT !.state = "running", !.prog = prog, !.ip = 1,
                                !.exe = which(opts[i].binary),
                                !.argv = opts[i].args, !.env = opts[i].env]]
    /\ obs' = [obs EXCEPT ![i].spawns = @ + 1]
    /\ LET text == opts[i].input_text IN
       IF text # None /\ ~CanEncode(Val(text))
       THEN /\ pc' = [pc EXCEPT ![i] = "done"]
            /\ outcome' = [outcome EXCEPT ![i] = UnicodeEncodeError]
            /\ UNCHANGED communicate_task
       ELSE /\ pc' = [pc EXCEPT ![i] = "exchange"]
            /\ communicate_task' = [communicate_task EXCEPT ![i] =
                   [NoTask EXCEPT !.state = "running",
                                  !.feeder = Feeder(input_bytes(text), runtime),
                                  !.to_write = IF input_bytes(text) = None THEN <<>>
                                               ELSE Val(input_bytes(text))]]
            /\ UNCHANGED outcome
    /\ UNCHANGED <<runtime, os_environ, metrics, serverVars, tool_result, prev, opts>>

\* ------------------------------------------------------------------------
\* The exchange: _communicate -> process.communicate(input_bytes), whose
\* three coroutines (feed stdin, read stdout, read stderr) run concurrently
\* under gather, followed by process.wait()
\* ------------------------------------------------------------------------
\* stdin.close() if it is not closing yet
CloseStdin(p) == [p EXCEPT !.stdin_closed = TRUE]

\* _feed_stdin: stdin.write / drain moves the input into the pipe as the
\* child makes room
FeedStdin(i) ==
    /\ communicate_task[i].state = "running"
    /\ communicate_task[i].feeder = "writing"
    /\ communicate_task[i].to_write # <<>>
    /\ Alive(process[i])
    /\ Len(process[i].pipe.stdin) < PipeCap
    /\ process' = [process EXCEPT ![i].pipe.stdin =
                       Append(@, Head(communicate_task[i].to_write))]
    /\ communicate_task' = [communicate_task EXCEPT ![i].to_write = Tail(@)]
    /\ UNCHANGED <<runtime, os_environ, metrics, serverVars, tool_result, prev, pc, opts, outcome, obs>>

\* _feed_stdin: the child is gone before the input was written; the
\* BrokenPipeError is ignored and stdin is closed
FeedBrokenPipe(i) ==
    /\ communicate_task[i].state = "running"
    /\ communicate_task[i].feeder = "writing"
    /\ communicate_task[i].to_write # <<>>
    /\ ~Alive(process[i])
    /\ process' = [process EXCEPT ![i] = CloseStdin(@)]
    /\ communicate_task' = [communicate_task EXCEPT ![i].feeder = "done",
                                                    ![i].to_write = <<>>]
    /\ UNCHANGED <<runtime, os_environ, metrics, serverVars, tool_result, prev, pc, opts, outcome, obs>>

\* _feed_stdin: everything is written (or there was nothing to write);
\* stdin.close()
FeedClose(i) ==
    /\ communicate_task[i].state = "running"
    /\ communicate_task[i].feeder = "writing"
    /\ communicate_task[i].to_write = <<>>
    /\ process' = [process EXCEPT ![i] = CloseStdin(@)]
    /\ communicate_task' = [communicate_task EXCEPT ![i].feeder = "done"]
    /\ UNCHANGED <<runtime, os_environ, metrics, serverVars, tool_result, prev, pc, opts, outcome, obs>>

\* _read_stream: take what the child wrote out of the pipe
ReadStream(i) ==
    /\ communicate_task[i].state = "running"
    /\ \E s \in Streams :
          /\ ~communicate_task[i].eof[s]
          /\ process[i].pipe[s] # <<>>
          /\ communicate_task' = [communicate_task EXCEPT ![i].buf[s] =
                                      Append(@, Head(process[i].pipe[s]))]
          /\ process' = [process EXCEPT ![i].pipe[s] = Tail(@)]
    /\ UNCHANGED <<runtime, os_environ, metrics, serverVars, tool_result, prev, pc, opts, outcome, obs>>

\* _read_stream: end of the stream, the child has closed its end
ReadEOF(i) ==
    /\ communicate_task[i].state = "running"
    /\ \E s \in Streams :
          /\ ~communicate_task[i].eof[s]
          /\ process[i].pipe[s] = <<>>
          /\ ~Alive(process[i])
          /\ communicate_task' = [communicate_task EXCEPT ![i].eof[s] = TRUE]
    /\ UNCHANGED <<runtime, os_environ, metrics, serverVars, tool_result, prev, pc, opts, process, outcome, obs>>

\* gather(stdin, stdout, stderr) completes: the wait for the drain is over
GatherDone(i) ==
    /\ communicate_task[i].state = "running"
    /\ communicate_task[i].stage = "gather"
    /\ communicate_task[i].feeder \in {"done", "noop"}
    /\ communicate_task[i].eof["stdout"]
    /\ communicate_task[i].eof["stderr"]
    /\ communicate_task' = [communicate_task EXCEPT ![i].stage = "wait"]
    /\ UNCHANGED <<runtime, os_environ, metrics, serverVars, tool_result, prev, pc, opts, process, outcome, obs>>

\* await self.wait() is over, communicate returns; lines 137-139 close
\* stdin if nothing closed it before
CommunicateReturns(i) ==
    /\ communicate_task[i].state = "running"
    /\ communicate_task[i].stage = "wait"
    /\ returncode(process[i]) # None
    /\ process' = [process EXCEPT ![i] = CloseStdin(@)]
    /\ communicate_task' = [communicate_task EXCEPT ![i].state = "done"]
    /\ UNCHANGED <<runtime, os_environ, metrics, serverVars, tool_result, prev, pc, opts, outcome, obs>>

\* the task was cancelled: CancelledError leaves communicate, lines 137-139
\* close stdin
CommunicateCancelled(i) ==
    /\ communicate_task[i].state = "cancelling"
    /\ process' = [process EXCEPT ![i] = CloseStdin(@)]
    /\ communicate_task' = [communicate_task EXCEPT ![i].state = "cancelled"]
    /\ UNCHANGED <<runtime, os_environ, metrics, serverVars, tool_result, prev, pc, opts, outcome, obs>>

\* ------------------------------------------------------------------------
\* The child process and the operating system
\* ------------------------------------------------------------------------
\* the process ends with the given status; its pipe ends close
Dies(p, status) ==
    [p EXCEPT !.state = "zombie", !.status = status, !.pending = {},
              !.pipe.stdin = <<>>]

\* the child runs the next operation of its program
ChildStep(i) ==
    /\ Alive(process[i])
    /\ LET p == process[i]
           code == Programs[p.prog].code
           cur == code[p.ip]
       IN  /\ p.ip <= Len(code)
           /\ CASE cur.op = "readall" ->
                     IF p.pipe.stdin # <<>>
                     THEN process' = [process EXCEPT
                              ![i].pipe.stdin = Tail(@),
                              ![i].stdin_read = Append(@, Head(p.pipe.stdin))]
                     ELSE /\ p.stdin_closed
                          /\ process' = [process EXCEPT ![i].ip = @ + 1,
                                                        ![i].stdin_eof = TRUE]
                [] cur.op = "read" ->
                     IF p.pipe.stdin # <<>>
                     THEN process' = [process EXCEPT
                              ![i].pipe.stdin = Tail(@),
                              ![i].stdin_read = Append(@, Head(p.pipe.stdin)),
                              ![i].ip = @ + 1]
                     ELSE /\ p.stdin_closed
                          /\ process' = [process EXCEPT ![i].ip = @ + 1,
                                                        ![i].stdin_eof = TRUE]
                [] cur.op = "echo" ->
                     IF p.echoed < Len(p.stdin_read)
                     THEN /\ Len(p.pipe.stdout) < PipeCap
                          /\ process' = [process EXCEPT
                                 ![i].pipe.stdout = Append(@, p.stdin_read[p.echoed + 1]),
                                 ![i].echoed = @ + 1]
                     ELSE process' = [process EXCEPT ![i].ip = @ + 1]
                [] cur.op \in Streams ->
                     /\ Len(p.pipe[cur.op]) < PipeCap
                     /\ process' = [process EXCEPT ![i].pipe[cur.op] = Append(@, cur.b),
                                                   ![i].ip = @ + 1]
                [] cur.op = "exit" ->
                     process' = [process EXCEPT ![i] = Dies([@ EXCEPT !.ip = p.ip + 1], cur.b)]
                [] cur.op = "sleep" -> FALSE
    /\ UNCHANGED <<runtime, os_environ, metrics, serverVars, tool_result, prev, pc, opts, communicate_task,
                   outcome, obs>>

\* a pending signal reaches the child: SIGKILL always ends it, SIGTERM
\* unless the program ignores it
DeliverSignal(i) ==
    /\ Alive(process[i])
    /\ \E sig \in process[i].pending :
          IF sig = SIGTERM /\ Programs[process[i].prog].ignoreTerm
          THEN process' = [process EXCEPT ![i].pending = @ \ {sig}]
          ELSE process' = [process EXCEPT ![i] = Dies(@, 0 - sig)]
    /\ UNCHANGED <<runtime, os_environ, metrics, serverVars, tool_result, prev, pc, opts, communicate_task,
                   outcome, obs>>

\* the event loop's child watcher collects the exit status: returncode is set
ReapChild(i) ==
    /\ process[i].state = "zombie"
    /\ process' = [process EXCEPT ![i].state = "reaped"]
    /\ UNCHANGED <<runtime, os_environ, metrics, serverVars, tool_result, prev, pc, opts, communicate_task,
                   outcome, obs>>

\* process.terminate() / process.kill(): send a signal to the child
SendSignal(p, sig) ==
    [p EXCEPT !.signals = Append(@, sig),
              !.pending = IF p.state = "running" THEN @ \cup {sig} ELSE @]

\* ------------------------------------------------------------------------
\* run_auggie supervising the exchange (lines 143-191).  A timeout or a
\* cancellation takes effect in the step in which the awaiting coroutine
\* resumes.
\* ------------------------------------------------------------------------
\* Classify with the two captured streams exchanged
Classify_Swapped(p, t, command) ==
    LET exit_code == IF returncode(p) = None THEN 0 ELSE Val(returncode(p))
        result == AuggieRunResult(utf8_decode(t.buf["stderr"]),
                                  utf8_decode(t.buf["stdout"]), exit_code, command)
    IN  IF exit_code # 0 THEN AuggieCommandError(result) ELSE result

\* Classify reporting every failure as exit code 1
Classify_ExitCodeLost(p, t, command) ==
    LET exit_code == IF returncode(p) = None \/ Val(returncode(p)) = 0 THEN 0 ELSE 1
        result == AuggieRunResult(utf8_decode(t.buf["stdout"]),
                                  utf8_decode(t.buf["stderr"]), exit_code, command)
    IN  IF exit_code # 0 THEN AuggieCommandError(result) ELSE result

\* lines 177-191: classify the finished exchange
Classify(p, t, command) ==
    LET exit_code == IF returncode(p) = None THEN 0 ELSE Val(returncode(p))
        result == AuggieRunResult(utf8_decode(t.buf["stdout"]),
                                  utf8_decode(t.buf["stderr"]), exit_code, command)
    IN  IF exit_code # 0 THEN AuggieCommandError(result) ELSE result

\* lines 146/158 -> 177-191: the awaited task has finished
ExchangeDone(i) ==
    /\ pc[i] = "exchange"
    /\ communicate_task[i].state = "done"
    /\ pc' = [pc EXCEPT ![i] = "done"]
    /\ outcome' = [outcome EXCEPT ![i] = Classify(process[i], communicate_task[i], opts[i].command)]
    /\ UNCHANGED <<runtime, os_environ, metrics, serverVars, tool_result, prev, opts, process, communicate_task, obs>>

\* TimeoutFires with the exchange bounded whether or not a timeout is set
TimeoutFires_Unconfigured(i) ==
    /\ pc[i] = "exchange"
    /\ communicate_task[i].state = "running"
    /\ communicate_task' = [communicate_task EXCEPT ![i].state = "cancelling"]
    /\ obs' = [obs EXCEPT ![i].timed_out = TRUE]
    /\ pc' = [pc EXCEPT ![i] = "timeout_cancel"]
    /\ UNCHANGED <<runtime, os_environ, metrics, serverVars, tool_result, prev, opts, process,
                   outcome>>

\* line 146: wait_for runs into the timeout while the task is unfinished;
\* it cancels the task and waits until the task has ended
TimeoutFires(i) ==
    /\ pc[i] = "exchange"
    /\ opts[i].timeout_seconds # None
    /\ communicate_task[i].state = "running"
    /\ communicate_task' = [communicate_task EXCEPT ![i].state = "cancelling"]
    /\ obs' = [obs EXCEPT ![i].timed_out = TRUE]
    /\ pc' = [pc EXCEPT ![i] = "timeout_cancel"]
    /\ UNCHANGED <<runtime, os_environ, metrics, serverVars, tool_result, prev, opts, process, outcome>>

\* TimeoutKill without the process.wait() of line 155
TimeoutKill_NoWait(i) ==
    /\ pc[i] = "timeout_cancel"
    /\ TaskDone(communicate_task[i])
    /\ process' = [process EXCEPT ![i] =
                       IF returncode(@) = None THEN SendSignal(@, SIGKILL) ELSE @]
    /\ pc' = [pc EXCEPT ![i] = "done"]
    /\ outcome' = [outcome EXCEPT ![i] =
                       AuggieTimeoutError(Val(opts[i].timeout_seconds))]
    /\ UNCHANGED <<runtime, os_environ, metrics, serverVars, tool_result, prev, opts, communicate_task, obs>>

\* TimeoutKill killing every child of the server that has no returncode
TimeoutKill_KillsAll(i) ==
    /\ pc[i] = "timeout_cancel"
    /\ TaskDone(communicate_task[i])
    /\ IF returncode(process[i]) = None
       THEN /\ process' = [j \in Invocations |->
                              IF Started(j) /\ returncode(process[j]) = None
                              THEN SendSignal(process[j], SIGKILL) ELSE process[j]]
            /\ pc' = [pc EXCEPT ![i] = "timeout_reap"]
            /\ UNCHANGED outcome
       ELSE /\ pc' = [pc EXCEPT ![i] = "done"]
            /\ outcome' = [outcome EXCEPT ![i] =
                               AuggieTimeoutError(Val(opts[i].timeout_seconds))]
            /\ UNCHANGED process
    /\ UNCHANGED <<runtime, os_environ, metrics, serverVars, tool_result, prev, opts, communicate_task, obs>>

\* TimeoutKill not waiting for the cancelled task to end
TimeoutKill_TaskPending(i) ==
    /\ pc[i] = "timeout_cancel"
    /\ IF returncode(process[i]) = None
       THEN /\ process' = [process EXCEPT ![i] = SendSignal(@, SIGKILL)]
            /\ pc' = [pc EXCEPT ![i] = "timeout_reap"]
            /\ UNCHANGED outcome
       ELSE /\ pc' = [pc EXCEPT ![i] = "done"]
            /\ outcome' = [outcome EXCEPT ![i] =
                               AuggieTimeoutError(Val(opts[i].timeout_seconds))]
            /\ UNCHANGED process
    /\ UNCHANGED <<runtime, os_environ, metrics, serverVars, tool_result, prev, opts, communicate_task, obs>>

\* lines 149-156: TimeoutError arrives; the task is done; kill the child
\* if it has no returncode and wait for it
TimeoutKill(i) ==
    /\ pc[i] = "timeout_cancel"
    /\ TaskDone(communicate_task[i])
    /\ IF returncode(process[i]) = None
       THEN /\ process' = [process EXCEPT ![i] = SendSignal(@, SIGKILL)]
            /\ pc' = [pc EXCEPT ![i] = "timeout_reap"]
            /\ UNCHANGED outcome
       ELSE /\ pc' = [pc EXCEPT ![i] = "done"]
            /\ outcome' = [outcome EXCEPT ![i] =
                               AuggieTimeoutError(Val(opts[i].timeout_seconds))]
            /\ UNCHANGED process
    /\ UNCHANGED <<runtime, os_environ, metrics, serverVars, tool_result, prev, opts, communicate_task, obs>>

\* lines 155-156: process.wait() returns, raise AuggieTimeoutError
TimeoutReaped(i) ==
    /\ pc[i] = "timeout_reap"
    /\ returncode(process[i]) # None
    /\ pc' = [pc EXCEPT ![i] = "done"]
    /\ outcome' = [outcome EXCEPT ![i] =
                       AuggieTimeoutError(Val(opts[i].timeout_seconds))]
    /\ UNCHANGED <<runtime, os_environ, metrics, serverVars, tool_result, prev, opts, process, communicate_task, obs>>

\* Abort killing the child at once instead of terminating it first
Abort_KillFirst(i) ==
    IF returncode(process[i]) = None
    THEN /\ process' = [process EXCEPT ![i] = SendSignal(@, SIGKILL)]
         /\ pc' = [pc EXCEPT ![i] = "cancel_reap"]
         /\ UNCHANGED outcome
    ELSE /\ pc' = [pc EXCEPT ![i] = "done"]
         /\ outcome' = [outcome EXCEPT ![i] = AuggieAbortedError]
         /\ UNCHANGED process

\* lines 159-170 once the task is done: terminate the child if it has no
\* returncode and start the one-second wait, else raise AuggieAbortedError
Abort(i) ==
    IF returncode(process[i]) = None
    THEN /\ process' = [process EXCEPT ![i] = SendSignal(@, SIGTERM)]
         /\ pc' = [pc EXCEPT ![i] = "cancel_grace"]
         /\ UNCHANGED outcome
    ELSE /\ pc' = [pc EXCEPT ![i] = "done"]
         /\ outcome' = [outcome EXCEPT ![i] = AuggieAbortedError]
         /\ UNCHANGED process

\* where a cancellation finds run_auggie: its suspension point, or
\* "finished" when the exchange has completed and run_auggie has not resumed
CancelPoint(i) ==
    IF pc[i] = "exchange" /\ communicate_task[i].state = "done"
    THEN "finished" ELSE pc[i]

\* CallerCancel with a timeout handler that turns a cancellation during
\* process.wait() into the pending AuggieTimeoutError
CallerCancel_TimeoutWins(i) ==
    /\ pc[i] \in {"exchange", "timeout_cancel", "timeout_reap",
                  "cancel_grace", "cancel_kill", "cancel_reap"}
    /\ Len(obs[i].cancel_at) < MaxCancels
    /\ obs' = [obs EXCEPT ![i].cancel_at = Append(@, CancelPoint(i))]
    /\ CASE pc[i] = "exchange" /\ communicate_task[i].state = "running" ->
              \* the cancellation is passed on to the awaited task
              /\ communicate_task' = [communicate_task EXCEPT ![i].state = "cancelling"]
              /\ pc' = [pc EXCEPT ![i] = "cancel_cancel"]
              /\ UNCHANGED <<process, outcome>>
         [] pc[i] = "exchange" /\ communicate_task[i].state = "done" ->
              IF opts[i].timeout_seconds # None /\ runtime = "py311"
              THEN \* wait_for returns the result of the finished task
                   UNCHANGED <<pc, process, communicate_task, outcome>>
              ELSE \* CancelledError at line 146/158
                   /\ Abort(i)
                   /\ UNCHANGED communicate_task
         [] pc[i] = "timeout_cancel" ->
              \* CancelledError instead of TimeoutError leaves wait_for
              /\ pc' = [pc EXCEPT ![i] = "cancel_cancel"]
              /\ UNCHANGED <<process, communicate_task, outcome>>
         [] pc[i] = "timeout_reap" ->
              /\ pc' = [pc EXCEPT ![i] = "done"]
              /\ outcome' = [outcome EXCEPT ![i] =
                                 AuggieTimeoutError(Val(opts[i].timeout_seconds))]
              /\ UNCHANGED <<process, communicate_task>>
         [] pc[i] \in {"cancel_grace", "cancel_kill", "cancel_reap"} ->
              \* CancelledError at line 166/169 leaves the handler
              /\ pc' = [pc EXCEPT ![i] = "done"]
              /\ outcome' = [outcome EXCEPT ![i] = CancelledError]
              /\ UNCHANGED <<process, communicate_task>>
    /\ UNCHANGED <<runtime, os_environ, metrics, serverVars, tool_result, prev, opts>>

\* the caller cancels the task that runs run_auggie while it is suspended
\* (a request that arrives while the cancelled task is still ending changes
\* nothing and is no step)
CallerCancel(i) ==
    /\ pc[i] \in {"exchange", "timeout_cancel", "timeout_reap",
                  "cancel_grace", "cancel_kill", "cancel_reap"}
    /\ Len(obs[i].cancel_at) < MaxCancels
    /\ obs' = [obs EXCEPT ![i].cancel_at = Append(@, CancelPoint(i))]
    /\ CASE pc[i] = "exchange" /\ communicate_task[i].state = "running" ->
              \* the cancellation is passed on to the awaited task
              /\ communicate_task' = [communicate_task EXCEPT ![i].state = "cancelling"]
              /\ pc' = [pc EXCEPT ![i] = "cancel_cancel"]
              /\ UNCHANGED <<process, outcome>>
         [] pc[i] = "exchange" /\ communicate_task[i].state = "done" ->
              IF opts[i].timeout_seconds # None /\ runtime = "py311"
              THEN \* wait_for returns the result of the finished task
                   UNCHANGED <<pc, process, communicate_task, outcome>>
              ELSE \* CancelledError at line 146/158
                   /\ Abort(i)
                   /\ UNCHANGED communicate_task
         [] pc[i] = "timeout_cancel" ->
              \* CancelledError instead of TimeoutError leaves wait_for
              /\ pc' = [pc EXCEPT ![i] = "cancel_cancel"]
              /\ UNCHANGED <<process, communicate_task, outcome>>
         [] pc[i] = "timeout_reap" ->
              \* CancelledError at line 155, caught at line 159
              /\ Abort(i)
              /\ UNCHANGED communicate_task
         [] pc[i] \in {"cancel_grace", "cancel_kill", "cancel_reap"} ->
              \* CancelledError at line 166/169 leaves the handler
              /\ pc' = [pc EXCEPT ![i] = "done"]
              /\ outcome' = [outcome EXCEPT ![i] = CancelledError]
              /\ UNCHANGED <<process, communicate_task>>
    /\ UNCHANGED <<runtime, os_environ, metrics, serverVars, tool_result, prev, opts>>

\* lines 159-164: CancelledError arrives at line 159 once the cancelled
\* task has ended
CancelTerminate(i) ==
    /\ pc[i] = "cancel_cancel"
    /\ TaskDone(communicate_task[i])
    /\ Abort(i)
    /\ UNCHANGED <<runtime, os_environ, metrics, serverVars, tool_result, prev, opts, communicate_task, obs>>

\* line 166 -> 170: the child was reaped within the second
GraceReaped(i) ==
    /\ pc[i] = "cancel_grace"
    /\ returncode(process[i]) # None
    /\ pc' = [pc EXCEPT ![i] = "done"]
    /\ outcome' = [outcome EXCEPT ![i] = AuggieAbortedError]
    /\ UNCHANGED <<runtime, os_environ, metrics, serverVars, tool_result, prev, opts, process, communicate_task, obs>>

\* lines 166-167: the second is over while process.wait() has not returned;
\* wait_for cancels the wait and TimeoutError is on its way to line 167
GraceExpires(i) ==
    /\ pc[i] = "cancel_grace"
    /\ returncode(process[i]) = None
    /\ pc' = [pc EXCEPT ![i] = "cancel_kill"]
    /\ UNCHANGED <<runtime, os_environ, metrics, serverVars, tool_result, prev, opts, process,
                   communicate_task, outcome, obs>>

\* lines 167-169: TimeoutError arrives and process.kill() is called whatever
\* returncode is by now.  For a child whose exit the event loop has
\* collected in the meantime the call does nothing when the transport of
\* the process is still open, and raises ProcessLookupError when it has
\* been closed.
GraceKill(i) ==
    /\ pc[i] = "cancel_kill"
    /\ process' = [process EXCEPT ![i] = SendSignal(@, SIGKILL)]
    /\ \/ /\ pc' = [pc EXCEPT ![i] = "cancel_reap"]
          /\ UNCHANGED outcome
       \/ /\ returncode(process[i]) # None
          /\ pc' = [pc EXCEPT ![i] = "done"]
          /\ outcome' = [outcome EXCEPT ![i] = ProcessLookupError]
    /\ UNCHANGED <<runtime, os_environ, metrics, serverVars, tool_result, prev, opts, communicate_task, obs>>

\* lines 169-170: process.wait() returns, raise AuggieAbortedError
KillReaped(i) ==
    /\ pc[i] = "cancel_reap"
    /\ returncode(process[i]) # None
    /\ pc' = [pc EXCEPT ![i] = "done"]
    /\ outcome' = [outcome EXCEPT ![i] = AuggieAbortedError]
    /\ UNCHANGED <<runtime, os_environ, metrics, serverVars, tool_result, prev, opts, process, communicate_task, obs>>

\* the call is over for its caller, who may call again; run_auggie keeps
\* nothing between calls
Return(i) ==
    /\ pc[i] = "done"
    /\ pc' = [pc EXCEPT ![i] = "idle"]
    /\ prev' = [prev EXCEPT ![i] =
                    IF outcome[i].kind = "AuggieNotInstalledError"
                    THEN [kind |-> outcome[i].kind, binary |-> outcome[i].binary_path]
                    ELSE NoPrev]
    /\ opts' = [opts EXCEPT ![i] = NoOpts]
    /\ process' = [process EXCEPT ![i] = NoProcess]
    /\ communicate_task' = [communicate_task EXCEPT ![i] = NoTask]
    /\ outcome' = [outcome EXCEPT ![i] = NoOutcome]
    /\ obs' = [obs EXCEPT ![i] = NoObs]
    /\ tool_result' = [tool_result EXCEPT ![i] = NoToolResult]
    /\ UNCHANGED <<runtime, os_environ, metrics, serverVars>>

\* ------------------------------------------------------------------------
\* Telemetry: the run history and the operations on the telemetry
\* ------------------------------------------------------------------------
MaxTelemetryCalls == 3  \* telemetry calls made after the initial state

AUGGIE_HISTORY_LIMIT == 1000

\* xs[-n:] for n >= 1
LastN(xs, n) == IF Len(xs) > n THEN SubSeq(xs, Len(xs) - n + 1, Len(xs)) ELSE xs

\* telemetry.py lines 118-142: the entry is appended to a deque of at most
\* 1000 entries, which drops its oldest entry when it is full
record_auggie_run(history, instruction, duration_ms, success) ==
    LET text == IF instruction = None THEN <<>> ELSE Val(instruction)
        entry == [instruction |-> IF Len(text) > 200 THEN SubSeq(text, 1, 200) ELSE text,
                  duration_ms |-> duration_ms,
                  success |-> success]
    IN  LastN(Append(history, entry), AUGGIE_HISTORY_LIMIT)

\* telemetry.py lines 145-167
collect_auggie_history(history, limit) ==
    LET capped == IF limit < AUGGIE_HISTORY_LIMIT THEN limit ELSE AUGGIE_HISTORY_LIMIT
        clamped == IF capped > 1 THEN capped ELSE 1
        runs == LastN(history, clamped)
    IN  [total_runs |-> Len(history),
         limit |-> clamped,
         runs |-> runs,
         total_success |-> Cardinality({k \in 1..Len(runs) : runs[k].success}),
         total_failures |-> Cardinality({k \in 1..Len(runs) : ~runs[k].success})]

\* the variables of the calls of run_auggie
callVars == <<runtime, os_environ, tool_result, prev, pc, opts, process, communicate_task,
              outcome, obs>>

\* telemetry.py lines 52-71, called directly
RecordOperation ==
    /\ recorded.calls < MaxTelemetryCalls
    /\ \E kind \in {"tool", "resource", "prompt"}, duration_ms \in {0, 1} :
          /\ metrics' = record_operation(metrics, kind, duration_ms)
          /\ recorded' = [recorded EXCEPT ![kind] = Append(@, duration_ms), !.calls = @ + 1]
    /\ UNCHANGED <<callVars, auggie_history, files, request, configured>>

\* telemetry.py lines 118-142
RecordAuggieRun ==
    /\ recorded.calls < MaxTelemetryCalls
    \* the instruction: none, a short one, one of 201 characters
    /\ \E instruction \in {None, Some(<<120>>), Some([k \in 1..201 |-> 121])},
          success \in BOOLEAN :
          /\ auggie_history' = record_auggie_run(auggie_history, instruction, 1, success)
          /\ recorded' = [recorded EXCEPT
                             !.runs = Append(@, record_auggie_run(<<>>, instruction, 1,
                                                                  success)[1]),
                             !.calls = @ + 1]
    /\ UNCHANGED <<callVars, metrics, files, request, configured>>

\* telemetry.py lines 36-49
ResetTelemetry ==
    /\ recorded.calls < MaxTelemetryCalls
    /\ metrics' = NoMetrics
    /\ auggie_history' = <<>>
    /\ recorded' = [NoRecorded EXCEPT !.calls = recorded.calls + 1]
    /\ UNCHANGED <<callVars, files, request, configured>>

\* ------------------------------------------------------------------------
\* Resources, prompts and the configuration tool of the server
\* ------------------------------------------------------------------------
MaxServerCalls == 3     \* requests the server handles

CanServe ==
    /\ request.pc = "idle"
    /\ metrics.tools_called + metrics.resources_read + metrics.prompts_requested
          < MaxServerCalls

Raised(kind) == [NoResult EXCEPT !.kind = kind]

Begun(op, kind, workspace, at) ==
    [NoRequest EXCEPT !.op = op, !.kind = kind, !.workspace = workspace, !.pc = at]

\* _metric_scope with the finally clause skipped when the body raises
MetricScopeExit_OnReturnOnly(req, result) ==
    /\ request' = [req EXCEPT !.pc = "done", !.result = result]
    /\ IF result.kind = "ok"
       THEN \E duration_ms \in {0, 1} :
               /\ metrics' = record_operation(metrics, req.kind, duration_ms)
               /\ recorded' = [recorded EXCEPT ![req.kind] = Append(@, duration_ms)]
       ELSE UNCHANGED <<metrics, recorded>>

\* server.py lines 45-54: the body of the scope has ended, by a return or by
\* an exception; the finally clause records one operation of the kind
MetricScopeExit(req, result) ==
    /\ request' = [req EXCEPT !.pc = "done", !.result = result]
    /\ \E duration_ms \in {0, 1} :
          /\ metrics' = record_operation(metrics, req.kind, duration_ms)
          /\ recorded' = [recorded EXCEPT ![req.kind] = Append(@, duration_ms)]

\* augment_configure writing the permissions wrapped in one more list
AugmentConfigure_Wrapped ==
    /\ CanServe
    /\ \E workspace_root \in WorkspaceArgs, permissions \in Permissions, scope \in Scopes :
          LET req == Begun("augment_configure", "tool", workspace_root, "body")
              settings_root == IF scope = "project" THEN expanduser(workspace_root) ELSE Home
              config == PyDict(<<"tool-permissions">>, <<PyList(<<permissions>>)>>)
          IN  IF scope \notin {"user", "project"}
              THEN MetricScopeExit(req, Raised("ToolError")) /\ UNCHANGED <<files, configured>>
              ELSE IF settings_root \notin Directories
              THEN MetricScopeExit(req, Raised("ToolError")) /\ UNCHANGED <<files, configured>>
              ELSE /\ files' = [files EXCEPT !.settings[settings_root] =
                                    Some(json_dumps(config) \o <<Tok("ws")>>)]
                   /\ configured' = [configured EXCEPT ![settings_root] = Some(permissions)]
                   /\ MetricScopeExit(req, [Raised("ok") EXCEPT !.path = Some(settings_root)])
    /\ UNCHANGED <<callVars, auggie_history>>

\* server.py lines 1041-1069: the tool has no await, it runs in one step
AugmentConfigure ==
    /\ CanServe
    /\ \E workspace_root \in WorkspaceArgs, permissions \in Permissions, scope \in Scopes :
          LET req == Begun("augment_configure", "tool", workspace_root, "body")
              settings_root == IF scope = "project" THEN expanduser(workspace_root) ELSE Home
              config == PyDict(<<"tool-permissions">>, <<permissions>>)
          IN  IF scope \notin {"user", "project"}
              THEN MetricScopeExit(req, Raised("ToolError")) /\ UNCHANGED <<files, configured>>
              ELSE IF settings_root \notin Directories
              THEN MetricScopeExit(req, Raised("ToolError")) /\ UNCHANGED <<files, configured>>
              ELSE /\ files' = [files EXCEPT !.settings[settings_root] =
                                    Some(json_dumps(config) \o <<Tok("ws")>>)]
                   /\ configured' = [configured EXCEPT ![settings_root] = Some(permissions)]
                   /\ MetricScopeExit(req, [Raised("ok") EXCEPT !.path = Some(settings_root)])
    /\ UNCHANGED <<callVars, auggie_history>>

\* server.py lines 442-453: without a settings file the resource answers at once
GetWorkspaceSettings ==
    /\ CanServe
    /\ \E workspace_path \in WorkspaceArgs :
          LET req == Begun("get_workspace_settings", "resource", workspace_path, "read")
              workspace == expanduser(workspace_path)
          IN  IF workspace \notin Directories \/ files.settings[workspace] = None
              THEN MetricScopeExit(req, [Raised("ok") EXCEPT !.exists = FALSE])
              ELSE request' = req /\ UNCHANGED <<metrics, recorded>>
    /\ UNCHANGED <<callVars, auggie_history, files, configured>>

\* server.py lines 455-467: the file has been read
SettingsRead ==
    /\ request.op = "get_workspace_settings"
    /\ request.pc = "read"
    /\ LET data == read_json_file(Val(files.settings[expanduser(request.workspace)]))
       IN  IF ~data.ok THEN MetricScopeExit(request, Raised("ResourceError"))
           ELSE IF data.v.t # "dict" THEN MetricScopeExit(request, Raised("AttributeError"))
           ELSE MetricScopeExit(request,
                    [Raised("ok") EXCEPT !.exists = TRUE,
                               !.tool_permissions =
                                   dict_get(data.v, "tool-permissions", PyList(<<>>))])
    /\ UNCHANGED <<callVars, auggie_history, files, configured>>

\* server.py lines 470-499
collect_command_entries(fs, dir, scope) ==
    IF dir \notin Directories \/ fs.commands[dir] = None THEN <<>>
    ELSE LET matches == SelectSeq(<<1, 2, 3, 4>>,
                            LAMBDA id : id \in Val(fs.commands[dir])
                                        /\ CommandFiles[id].suffix = ".md")
             regular == SelectSeq(matches, LAMBDA id : CommandFiles[id].is_file)
         IN  [k \in 1..Len(regular) |->
                 [name |-> CommandFiles[regular[k]].name,
                  path |-> <<dir, regular[k]>>,
                  scope |-> scope,
                  namespace |-> CommandFiles[regular[k]].namespace]]

\* server.py lines 509-514: the scope is entered, the workspace directory is next
GetCustomCommands ==
    /\ CanServe
    /\ \E workspace_path \in WorkspaceArgs :
          request' = Begun("get_custom_commands", "resource", workspace_path,
                           "workspace_commands")
    /\ UNCHANGED <<callVars, metrics, auggie_history, files, configured, recorded>>

\* server.py lines 513-514
WorkspaceCommands ==
    /\ request.pc = "workspace_commands"
    /\ request' = [request EXCEPT
                      !.pc = "user_commands",
                      !.entries = collect_command_entries(files, expanduser(request.workspace),
                                                          "workspace")]
    /\ UNCHANGED <<callVars, metrics, auggie_history, files, configured, recorded>>

\* server.py lines 516-527
UserCommands ==
    /\ request.pc = "user_commands"
    /\ LET commands == request.entries \o collect_command_entries(files, Home, "user")
       IN  MetricScopeExit(request, [Raised("ok") EXCEPT !.commands = commands, !.total = Len(commands)])
    /\ UNCHANGED <<callVars, auggie_history, files, configured>>

\* server.py lines 739-745
GetAuggieHistory ==
    /\ CanServe
    /\ \E limit \in {0, 50} :
          LET payload == collect_auggie_history(auggie_history, limit)
          IN  MetricScopeExit(Begun("get_auggie_history", "resource", "", "body"),
                              [Raised("ok") EXCEPT !.total = payload.total_runs])
    /\ UNCHANGED <<callVars, auggie_history, files, configured>>

\* server.py lines 812-1034: a prompt is rendered without an await
RenderPrompt ==
    /\ CanServe
    /\ MetricScopeExit(Begun("prompt", "prompt", "", "body"), Raised("ok"))
    /\ UNCHANGED <<callVars, auggie_history, files, configured>>

\* the request is cancelled while it waits for the file system
CancelRequest ==
    /\ request.pc \in {"read", "workspace_commands", "user_commands"}
    /\ MetricScopeExit(request, Raised("CancelledError"))
    /\ UNCHANGED <<callVars, auggie_history, files, configured>>

\* the answer or the error has been handed to the client
Respond ==
    /\ request.pc = "done"
    /\ request' = NoRequest
    /\ UNCHANGED <<callVars, metrics, auggie_history, files, configured, recorded>>

\* ------------------------------------------------------------------------
\* Specifications
\* ------------------------------------------------------------------------
Exchange(i) ==
    \/ FeedStdin(i) \/ FeedBrokenPipe(i) \/ FeedClose(i)
    \/ ReadStream(i) \/ ReadEOF(i) \/ GatherDone(i)
    \/ CommunicateReturns(i) \/ CommunicateCancelled(i)

Child(i) == ChildStep(i) \/ DeliverSignal(i) \/ ReapChild(i)

Supervise(i) ==
    \/ ExchangeDone(i) \/ TimeoutKill(i) \/ TimeoutReaped(i)
    \/ CancelTerminate(i) \/ GraceReaped(i) \/ GraceExpires(i) \/ GraceKill(i)
    \/ KillReaped(i)

Launch(i) == SpawnNotFound(i) \/ SpawnOSError(i) \/ SpawnStarted(i)

Next ==
    \E i \in Invocations :
        \/ Call(i) \/ Launch(i) \/ Exchange(i) \/ Child(i) \/ Supervise(i)
        \/ TimeoutFires(i) \/ CallerCancel(i) \/ Return(i)

Spec == Init /\ [][Next]_vars

\* the callers of run_auggie with their options: direct calls and the tool
OptionsNext ==
    \E i \in Invocations :
        \/ OptionsCall(i) \/ AugmentReview(i)
        \/ Launch(i) \/ Exchange(i) \/ Child(i) \/ Supervise(i)
        \/ TimeoutFires(i) \/ CallerCancel(i) \/ Return(i)

OptionsSpec == OptionsInit /\ [][OptionsNext]_vars

\* concurrent invocations; a call that has ended stays ended
ConcurrentNext ==
    \E i \in Invocations :
        \/ ConcurrentCall(i)
        \/ Launch(i) \/ Exchange(i) \/ Child(i) \/ Supervise(i)
        \/ TimeoutFires(i) \/ CallerCancel(i)

ConcurrentSpec == ConcurrentInit /\ [][ConcurrentNext]_vars

\* The event loop runs every task that can run, the kernel runs the child,
\* delivers signals and reports exits, and the one-second timer of line 166
\* expires.  The caller's cancellation, the timeout of the exchange and
\* further calls may or may not happen.
Fairness ==
    \A i \in Invocations :
        /\ WF_vars(Launch(i))
        /\ WF_vars(Exchange(i))
        /\ WF_vars(Child(i))
        /\ WF_vars(Supervise(i))

FairSpec == Spec /\ Fairness

\* the telemetry before the calls: fresh, filled to the limit, or past it
WarmDurations(n) == [k \in 1..n |-> k + 1]

WarmRuns(n) == [k \in 1..n |-> [instruction |-> <<>>, duration_ms |-> k + 1, success |-> TRUE]]

InitialTelemetry ==
    { [m |-> NoMetrics, h |-> <<>>, r |-> NoRecorded],
      [m |-> [NoMetrics EXCEPT !.tools_called = METRIC_HISTORY_LIMIT,
                               !.tool_durations = WarmDurations(METRIC_HISTORY_LIMIT)],
       h |-> WarmRuns(AUGGIE_HISTORY_LIMIT),
       r |-> [NoRecorded EXCEPT !.tool = WarmDurations(METRIC_HISTORY_LIMIT),
                                !.runs = WarmRuns(AUGGIE_HISTORY_LIMIT)]],
      [m |-> [NoMetrics EXCEPT !.prompts_requested = METRIC_HISTORY_LIMIT + 2,
                               !.prompt_durations =
                                   LastN(WarmDurations(METRIC_HISTORY_LIMIT + 2),
                                         METRIC_HISTORY_LIMIT),
                               !.resources_read = METRIC_HISTORY_LIMIT,
                               !.resource_durations = WarmDurations(METRIC_HISTORY_LIMIT)],
       h |-> <<>>,
       r |-> [NoRecorded EXCEPT !.prompt = WarmDurations(METRIC_HISTORY_LIMIT + 2),
                                !.resource = WarmDurations(METRIC_HISTORY_LIMIT)]] }

TelemetryInit ==
    /\ NoCalls
    /\ runtime = "py311"
    /\ os_environ = NoEnviron
    /\ pc = [i \in Invocations |-> "off"]
    /\ files = NoFiles
    /\ \E t \in InitialTelemetry :
          /\ metrics = t.m
          /\ auggie_history = t.h
          /\ recorded = t.r

TelemetryNext == RecordOperation \/ RecordAuggieRun \/ ResetTelemetry

TelemetrySpec == TelemetryInit /\ [][TelemetryNext]_vars

\* the server starts in one of the initial layouts of the file system
ServerInit ==
    /\ NoCalls
    /\ runtime = "py311"
    /\ os_environ = NoEnviron
    /\ pc = [i \in Invocations |-> "off"]
    /\ metrics = NoMetrics
    /\ auggie_history = <<>>
    /\ recorded = NoRecorded
    /\ files \in {NoFiles, BrokenHome, ListHome}

ServerNext ==
    \/ AugmentConfigure
    \/ GetWorkspaceSettings
    \/ SettingsRead
    \/ GetCustomCommands
    \/ WorkspaceCommands
    \/ UserCommands
    \/ GetAuggieHistory
    \/ RenderPrompt
    \/ CancelRequest
    \/ Respond

ServerSpec == ServerInit /\ [][ServerNext]_vars

\* ------------------------------------------------------------------------
\* Properties
\* ------------------------------------------------------------------------
Stdout(i) ==
    Written(Programs[process[i].prog].code, process[i].ip - 1, "stdout",
            process[i].stdin_read)
Stderr(i) ==
    Written(Programs[process[i].prog].code, process[i].ip - 1, "stderr",
            process[i].stdin_read)

\* the exchange ran to its end undisturbed
Undisturbed(i) ==
    /\ pc[i] = "done"
    /\ communicate_task[i].state = "done"
    /\ ~obs[i].timed_out
    /\ obs[i].cancel_at = <<>>

\* C1: whenever run_auggie has returned or raised after starting a child,
\* the exit status of that child has been collected.
C1_ChildReaped ==
    \A i \in Invocations :
        pc[i] = "done" /\ Started(i) => process[i].state = "reaped"

\* C2: once the timeout has elapsed on an unfinished exchange and the
\* caller does not cancel, run_auggie raises AuggieTimeoutError; that error
\* carries the configured timeout and the child is not running when it is
\* raised.
C2_TimeoutRaises ==
    /\ \A i \in Invocations :
          (obs[i].timed_out /\ obs[i].cancel_at = <<>>)
             ~> \/ /\ pc[i] = "done"
                   /\ outcome[i].kind = "AuggieTimeoutError"
                \/ obs[i].cancel_at # <<>>
    /\ [](\A i \in Invocations :
             outcome[i].kind = "AuggieTimeoutError"
                => /\ outcome[i].timeout_seconds = opts[i].timeout_seconds
                   /\ opts[i].timeout_seconds # None
                   /\ ~Alive(process[i]))

C2_Witness ==
    \E i \in Invocations :
        /\ pc[i] = "done"
        /\ outcome[i] = AuggieTimeoutError(2)
        /\ process[i].signals = <<SIGKILL>>
        /\ process[i].state = "reaped"

\* C3: a call cancelled while its exchange is unfinished ends with
\* AuggieAbortedError and with the child no longer running.
C3_CancelledOutcome ==
    \A i \in Invocations :
        (/\ pc[i] = "done"
         /\ obs[i].cancel_at # <<>>
         /\ Head(obs[i].cancel_at) \in {"exchange", "timeout_cancel", "timeout_reap"})
           => /\ outcome[i].kind = "AuggieAbortedError"
              /\ ~Alive(process[i])

\* C4 as claimed: the outcome is Cancelled only if the cancellation was
\* observed before the timeout elapsed; once the timeout has elapsed, a
\* cancellation that arrives later does not make the outcome Cancelled.
C4_TimeoutFirstWins ==
    \A i \in Invocations :
        pc[i] = "done" /\ obs[i].timed_out
           => outcome[i].kind # "AuggieAbortedError"

\* C4 as amended: the outcome is TimedOut only if no cancellation arrived
\* before AuggieTimeoutError was raised.  A cancellation that arrives after
\* the timeout elapsed, while the task is stopped or the child is killed
\* and reaped, ends the call as a cancellation: with AuggieAbortedError, or
\* with an error of the escalation that follows the cancellation (a bare
\* CancelledError when the caller cancels once more, ProcessLookupError
\* when the kill after the grace period finds the child already collected).
\* The outcome is Cancelled only if a cancellation arrived.
C4_CancellationWins ==
    \A i \in Invocations :
        pc[i] = "done" =>
            /\ outcome[i].kind = "AuggieTimeoutError"
                  => obs[i].timed_out /\ obs[i].cancel_at = <<>>
            /\ obs[i].timed_out /\ obs[i].cancel_at # <<>>
                  => outcome[i].kind \in {"AuggieAbortedError", "CancelledError",
                                          "ProcessLookupError"}
            /\ obs[i].timed_out /\ Len(obs[i].cancel_at) = 1
                  => outcome[i].kind \in {"AuggieAbortedError", "ProcessLookupError"}
            /\ outcome[i].kind = "AuggieAbortedError" => obs[i].cancel_at # <<>>

C4_Witness ==
    \E i \in Invocations :
        /\ pc[i] = "done"
        /\ obs[i].timed_out
        /\ obs[i].cancel_at = <<"timeout_reap">>
        /\ outcome[i].kind = "AuggieAbortedError"

\* C5: when the wait for the drain of stdout and stderr is over, the
\* child's stdin has been closed.
C5_StdinClosedBeforeDrainDone ==
    \A i \in Invocations :
        communicate_task[i].stage = "wait" => process[i].stdin_closed

\* the child is blocked reading its input
ChildReads(i) ==
    /\ Alive(process[i])
    /\ Programs[process[i].prog].code[process[i].ip].op \in {"readall", "read"}

\* C6: no state is reachable in which the exchange waits for the child
\* while the child waits for its input, neither able to take a step.
C6_NoMutualWait ==
    \A i \in Invocations :
        ~ (/\ pc[i] = "exchange"
           /\ communicate_task[i].state = "running"
           /\ ChildReads(i)
           /\ ~ENABLED (Exchange(i) \/ Child(i)))

\* C7 as claimed: after an undisturbed exchange with a child that exited
\* with code 0 the result is a success whose stdout and stderr are, byte
\* for byte, what the child wrote.
C7_ExactBytes ==
    \A i \in Invocations :
        Undisturbed(i) /\ process[i].status = 0
           => /\ outcome[i].kind = "AuggieRunResult"
              /\ outcome[i].exit_code = 0
              /\ utf8_encode(outcome[i].stdout) = Stdout(i)
              /\ utf8_encode(outcome[i].stderr) = Stderr(i)

\* C7 as amended: the result is a success whose stdout and stderr are the
\* UTF-8 decoding of everything the child wrote to that stream, in order,
\* each invalid byte replaced by U+FFFD.
C7_DecodedOutput ==
    \A i \in Invocations :
        Undisturbed(i) /\ process[i].status = 0
           => /\ outcome[i].kind = "AuggieRunResult"
              /\ outcome[i].exit_code = 0
              /\ outcome[i].stdout = utf8_decode(Stdout(i))
              /\ outcome[i].stderr = utf8_decode(Stderr(i))

C7_Witness ==
    \E i \in Invocations :
        /\ Undisturbed(i)
        /\ outcome[i].kind = "AuggieRunResult"
        /\ outcome[i].stdout = <<233, Replacement>>

\* C8: after an undisturbed exchange with a child that exited with a code
\* N other than 0, run_auggie raises AuggieCommandError with exit_code N
\* and everything the child wrote to stdout and to stderr.
C8_NonZeroExit ==
    \A i \in Invocations :
        Undisturbed(i) /\ process[i].status # 0
           => /\ outcome[i].kind = "AuggieCommandError"
              /\ outcome[i].exit_code = process[i].status
              /\ outcome[i].stdout = utf8_decode(Stdout(i))
              /\ outcome[i].stderr = utf8_decode(Stderr(i))

C8_Witness ==
    \E i \in Invocations :
        /\ Undisturbed(i)
        /\ outcome[i].kind = "AuggieCommandError"
        /\ outcome[i].exit_code = 2
        /\ outcome[i].stdout = <<>>
        /\ outcome[i].stderr = <<69>>

\* C9: a call for an executable that does not exist raises
\* AuggieNotInstalledError with that path, starts no child, creates no task,
\* sends no signal, and ends the same way when it is repeated.
C9_NotFound ==
    \A i \in Invocations :
        pc[i] = "done" /\ opts[i].binary # <<>> /\ which(opts[i].binary) \notin Executables
           => /\ outcome[i] = AuggieNotInstalledError(opts[i].binary)
              /\ process[i] = NoProcess
              /\ communicate_task[i] = NoTask
              /\ obs[i] = [NoObs EXCEPT !.spawns = 1]
              /\ prev[i] # NoPrev
                    => prev[i] = [kind |-> outcome[i].kind,
                                  binary |-> outcome[i].binary_path]

C9_Witness ==
    \E i \in Invocations :
        /\ pc[i] = "done"
        /\ outcome[i] = AuggieNotInstalledError(MissingBinary)
        /\ prev[i] = [kind |-> "AuggieNotInstalledError", binary |-> MissingBinary]

\* C10: after a timeout the child is never killed before it was sent
\* SIGTERM.
C10_TimeoutTerminatesFirst ==
    \A i \in Invocations :
        obs[i].timed_out /\ obs[i].cancel_at = <<>> /\ process[i].signals # <<>>
           => Head(process[i].signals) = SIGTERM

\* the signal run_auggie sends in this step, if it sends one
Sends(i, sig) ==
    /\ Len(process[i].signals') = Len(process[i].signals) + 1
    /\ process[i].signals'[Len(process[i].signals')] = sig

\* C11: once the caller has cancelled, run_auggie kills the child only
\* after the grace period has ended with the child still without returncode,
\* and the signal sent last was the terminate signal; a child whose exit was
\* seen within the grace period gets no kill; and AuggieAbortedError is
\* raised only when the child's exit status has been collected.
C11_TerminateThenKill ==
    /\ [][\A i \in Invocations :
             /\ (obs[i].cancel_at' # <<>> /\ Sends(i, SIGKILL))
                   => /\ pc[i] = "cancel_kill"
                      /\ process[i].signals[Len(process[i].signals)] = SIGTERM
             /\ pc'[i] = "cancel_kill"
                   => /\ pc[i] \in {"cancel_grace", "cancel_kill"}
                      /\ pc[i] = "cancel_grace" => returncode(process[i]) = None
             /\ (obs[i].cancel_at' # <<>> /\ Sends(i, SIGTERM))
                   => /\ pc'[i] = "cancel_grace"
                      /\ Alive(process[i]) \/ process[i].state = "zombie"
             /\ (pc[i] = "cancel_grace" /\ returncode(process[i]) # None
                    /\ pc'[i] = "done" /\ Len(obs[i].cancel_at') = 1)
                   => /\ process'[i] = process[i]
                      /\ outcome'[i].kind = "AuggieAbortedError"]_vars
    /\ [](\A i \in Invocations :
             outcome[i].kind = "AuggieAbortedError"
                => /\ process[i].state = "reaped"
                   /\ obs[i].cancel_at # <<>>)

\* a child that ignores the terminate signal was terminated, then killed,
\* then reaped, and the call ended with AuggieAbortedError
C11_Witness ==
    \E i \in Invocations :
        /\ pc[i] = "done"
        /\ outcome[i].kind = "AuggieAbortedError"
        /\ ~obs[i].timed_out
        /\ process[i].signals = <<SIGTERM, SIGKILL>>
        /\ process[i].status = 0 - SIGKILL
        /\ process[i].state = "reaped"

\* the six kinds of outcome of an invocation
OutcomeKinds ==
    {"AuggieRunResult", "AuggieCommandError", "AuggieNotInstalledError",
     "AuggieTimeoutError", "AuggieAbortedError", "AuggieError"}

\* C12: every call that has ended has ended with one of the six outcome
\* kinds, and only a result or an AuggieCommandError carries captured
\* output.
C12_OneOutcomeKind ==
    \A i \in Invocations :
        pc[i] = "done"
           => /\ outcome[i].kind \in OutcomeKinds
              /\ outcome[i].kind \notin {"AuggieRunResult", "AuggieCommandError"}
                    => outcome[i].stdout = <<>> /\ outcome[i].stderr = <<>>

\* C13: a call without timeout never times out, never raises
\* AuggieTimeoutError, signals the child only after the caller cancelled,
\* and once the exchange has begun it ends only with the exchange complete
\* or after a cancellation.
C13_NoTimeoutConfigured ==
    \A i \in Invocations :
        (pc[i] \notin {"off", "idle"} /\ opts[i].timeout_seconds = None)
           => /\ ~obs[i].timed_out
              /\ outcome[i].kind # "AuggieTimeoutError"
              /\ process[i].signals # <<>> => obs[i].cancel_at # <<>>
              /\ (pc[i] = "done" /\ communicate_task[i].state # "none")
                    => \/ communicate_task[i].state = "done"
                       \/ obs[i].cancel_at # <<>>

\* a child that sleeps for ever ran without timeout until the caller
\* cancelled
C13_Witness ==
    \E i \in Invocations :
        /\ pc[i] = "done"
        /\ opts[i].timeout_seconds = None
        /\ process[i].prog = 6
        /\ process[i].signals = <<SIGTERM>>
        /\ outcome[i].kind = "AuggieAbortedError"

\* C14: a launch that failed though the executable exists ends the call
\* with the launch-failure AuggieError and without child or task, and no
\* call makes more than one launch attempt.
C14_LaunchFailure ==
    \A i \in Invocations :
        /\ obs[i].spawns <= 1
        /\ pc[i] \in {"off", "idle", "spawn"} => obs[i].spawns = 0
        /\ (pc[i] = "done" /\ obs[i].spawns = 1 /\ ~Started(i)
               /\ which(opts[i].binary) \in Executables)
              => /\ outcome[i] = AuggieError("Failed to start Auggie CLI")
                 /\ process[i] = NoProcess
                 /\ communicate_task[i] = NoTask

C14_Witness ==
    \E i \in Invocations :
        /\ pc[i] = "done"
        /\ obs[i].spawns = 1
        /\ opts[i].binary = AuggieBinary
        /\ outcome[i] = AuggieError("Failed to start Auggie CLI")
        /\ process[i] = NoProcess

\* C15: no step changes the environment of the server process, and the
\* environment of every child is that environment with AUGMENT_SESSION_AUTH
\* set to the session token of the call when the call has one.
C15_EnvironmentCopied ==
    /\ [][os_environ' = os_environ]_vars
    /\ [](\A i \in Invocations :
             Started(i)
                => /\ process[i].env.AUGGIE_PATH = os_environ.AUGGIE_PATH
                   /\ process[i].env.AUGMENT_SESSION_AUTH =
                         IF opts[i].session_token \notin {None, Some(<<>>)}
                         THEN opts[i].session_token
                         ELSE os_environ.AUGMENT_SESSION_AUTH)

\* a call with a session token ended while the server has a token of its
\* own: the child got the token of the call
C15_Witness ==
    \E i \in Invocations :
        /\ pc[i] = "done"
        /\ Started(i)
        /\ opts[i].session_token = Some(<<115>>)
        /\ os_environ.AUGMENT_SESSION_AUTH = Some(<<112>>)
        /\ process[i].env.AUGMENT_SESSION_AUTH = Some(<<115>>)

HasWhitespace(text) == \E k \in 1..Len(text) : IsSpace(text[k])

Quoted(text) == IF HasWhitespace(text) THEN <<Quote>> \o text \o <<Quote>> ELSE text

\* C17: the command of a result is the binary and the arguments the child
\* got, in order, joined by single spaces, each element that contains
\* whitespace in double quotes.
C17_CommandString ==
    \A i \in Invocations :
        outcome[i].kind \in {"AuggieRunResult", "AuggieCommandError"}
           => outcome[i].command =
                 LET line == <<opts[i].binary>> \o process[i].argv
                 IN  join(<<Space>>, [k \in 1..Len(line) |-> Quoted(line[k])])

FlagWorkspaceRoot ==                                            \* "--workspace-root"
    <<45, 45, 119, 111, 114, 107, 115, 112, 97, 99, 101, 45, 114, 111, 111, 116>>
FlagModel == <<45, 45, 109, 111, 100, 101, 108>>                \* "--model"

\* C18: a call that passes workspace_root and model is accepted, and the
\* child it starts gets --workspace-root and --model among its arguments
\* together with the extra arguments of the call.
C18_WorkspaceAndModel ==
    \A i \in Invocations :
        (pc[i] = "done" /\ {"workspace_root", "model"} \subseteq opts[i].keywords)
           => /\ outcome[i].kind # "TypeError"
              /\ Started(i)
                    => /\ Contains(process[i].argv, FlagWorkspaceRoot)
                       /\ Contains(process[i].argv, FlagModel)
                       /\ \A k \in 1..Len(Val(opts[i].extra_args)) :
                             Contains(process[i].argv, Val(opts[i].extra_args)[k])

WorkspaceLabel == <<87, 111, 114, 107, 115, 112, 97, 99, 101, 58, 32>>   \* "Workspace: "

\* C20: a tool call whose Auggie CLI exits with a code other than 0 ends
\* with a ToolError; its message has the exit-code message, the line
\* "Workspace: <workspace_root>" when a workspace_root was given, and the
\* captured stderr and stdout that are not empty.
C20_ToolErrorKeepsOutput ==
    \A i \in Invocations :
        (/\ tool_result[i].kind # "none"
         /\ default_binary_path(os_environ) \in Executables
         /\ opts[i].extra_args = Some(<<FlagFail>>))
           => /\ tool_result[i].kind = "ToolError"
              /\ Len(tool_result[i].message) >= 1
              /\ opts[i].workspace_root # None
                    => \E k \in 1..Len(tool_result[i].message) :
                          tool_result[i].message[k] =
                             WorkspaceLabel \o Val(opts[i].workspace_root)
              /\ \A s \in Streams :
                    outcome[i][s] # <<>>
                       => \E k \in 1..Len(tool_result[i].message) :
                             \E n \in 0..Len(tool_result[i].message[k]) :
                                SubSeq(tool_result[i].message[k], n + 1,
                                       Len(tool_result[i].message[k])) = outcome[i][s]

\* C19: in an exchange that no timeout and no cancellation disturbs, a
\* child that has read its stdin to the end of a non-empty input_text has
\* read exactly the UTF-8 encoding of input_text; the fake CLI, which reads
\* to the end and echoes, has then seen the end of its input and its
\* output ends with input_text unchanged.
C19_InputDelivered ==
    \A i \in Invocations :
        (Truthy(opts[i].input_text) /\ ~obs[i].timed_out /\ obs[i].cancel_at = <<>>)
           => /\ process[i].stdin_eof
                    => process[i].stdin_read = utf8_encode(Val(opts[i].input_text))
              /\ (Undisturbed(i) /\ process[i].prog = 1)
                    => /\ process[i].stdin_eof
                       /\ outcome[i].kind = "AuggieRunResult"
                       /\ outcome[i].stdout = <<65>> \o Val(opts[i].input_text)

\* the fake CLI echoed a two-byte character
C19_Witness ==
    \E i \in Invocations :
        /\ Undisturbed(i)
        /\ process[i].prog = 1
        /\ opts[i].input_text = Some(<<233>>)
        /\ process[i].stdin_read = <<195, 169>>
        /\ process[i].stdin_eof
        /\ outcome[i].stdout = <<65, 233>>

\* everything one invocation holds
Slot(i) ==
    <<pc[i], opts[i], process[i], communicate_task[i], outcome[i], obs[i]>>

\* C16: with invocations running concurrently, no step of one changes
\* anything of another (its child, its pipes, its task, its outcome); a
\* child is signalled only after the timeout or a cancellation of its own
\* invocation; and the outcome of each invocation is the one its own child,
\* timeout and cancellations determine.
C16_Isolation ==
    /\ [][\A i, j \in Invocations :
             (i # j /\ Slot(i)' # Slot(i)) => Slot(j)' = Slot(j)]_vars
    /\ [](\A i \in Invocations :
             /\ process[i].signals # <<>>
                   => obs[i].timed_out \/ obs[i].cancel_at # <<>>
             /\ Undisturbed(i)
                   => /\ outcome[i].kind \in {"AuggieRunResult", "AuggieCommandError"}
                      /\ outcome[i].kind = "AuggieRunResult" <=> process[i].status = 0
                      /\ outcome[i].exit_code = process[i].status
                      /\ outcome[i].stdout = utf8_decode(Stdout(i))
                      /\ outcome[i].stderr = utf8_decode(Stderr(i))
             /\ (pc[i] = "done" /\ obs[i].timed_out /\ obs[i].cancel_at = <<>>)
                   => outcome[i] = AuggieTimeoutError(Val(opts[i].timeout_seconds))
             /\ outcome[i].kind = "AuggieAbortedError" => obs[i].cancel_at # <<>>)

\* one invocation has timed out and killed its child while the child of the
\* other runs, unsignalled, in an exchange nothing has disturbed
C16_Witness ==
    \E i, j \in Invocations :
        /\ i # j
        /\ pc[i] = "timeout_reap"
        /\ process[i].signals = <<SIGKILL>>
        /\ pc[j] = "exchange"
        /\ Alive(process[j])
        /\ process[j].signals = <<>>
        /\ process[j].prog = 6

\* the executable a call is to launch, from its binary_path and os.environ
ExpectedBinary(i) ==
    IF Truthy(opts[i].binary_path) THEN Val(opts[i].binary_path)
    ELSE IF os_environ.AUGGIE_PATH # None THEN Val(os_environ.AUGGIE_PATH)
    ELSE DefaultBinary

\* C23: the executable run_auggie launches, or reports as not installed, is
\* the binary_path of the call when one is given, else the value of
\* AUGGIE_PATH when it is set, else the file named auggie on the search path.
C23_BinaryResolution ==
    \A i \in Invocations :
        /\ Started(i)
              => /\ process[i].exe = which(ExpectedBinary(i))
                 /\ Contains(ExpectedBinary(i), Slash)
                       => process[i].exe = ExpectedBinary(i)
                 /\ ExpectedBinary(i) = DefaultBinary
                       => process[i].exe = InstalledAuggie
        /\ outcome[i].kind = "AuggieNotInstalledError"
              => outcome[i].binary_path = ExpectedBinary(i)

\* without binary_path and without AUGGIE_PATH the CLI installed on the
\* search path was launched
C23_Witness ==
    \E i \in Invocations :
        /\ pc[i] = "done"
        /\ opts[i].binary_path = None
        /\ os_environ.AUGGIE_PATH = None
        /\ process[i].exe = InstalledAuggie
        /\ outcome[i].kind = "AuggieRunResult"

\* C24: run_auggie sends a signal to the child only when the exchange task
\* has ended, and after a timeout or a cancellation only when the task was
\* asked to stop or had finished; and when run_auggie has returned or raised
\* no exchange task is pending.
C24_TaskStoppedFirst ==
    /\ [][\A i \in Invocations :
             (\E sig \in {SIGTERM, SIGKILL} : Sends(i, sig))
                => /\ TaskDone(communicate_task[i])
                   /\ obs[i].timed_out \/ obs[i].cancel_at # <<>>]_vars
    /\ [](\A i \in Invocations :
             pc[i] = "done" => communicate_task[i].state \in {"none", "done", "cancelled"})

\* a timed-out call has ended with its task cancelled and its child killed
C24_Witness ==
    \E i \in Invocations :
        /\ pc[i] = "done"
        /\ outcome[i].kind = "AuggieTimeoutError"
        /\ communicate_task[i].state = "cancelled"
        /\ process[i].signals = <<SIGKILL>>

\* C26: run_auggie sends terminate or kill only to a child that has no
\* returncode at that moment.
C26_SignalsOnlyUnobserved ==
    [][\A i \in Invocations :
          (\E sig \in {SIGTERM, SIGKILL} : Sends(i, sig))
             => returncode(process[i]) = None]_vars

\* C27: a call whose instruction is empty once stripped raises AuggieError
\* with no launch attempted; in every other call the child's arguments end
\* with --print and the stripped, non-empty instruction.
C27_InstructionRequired ==
    \A i \in Invocations :
        /\ outcome[i] = AuggieError("Instruction is required for Auggie invocations")
              => /\ process[i] = NoProcess
                 /\ communicate_task[i] = NoTask
                 /\ obs[i].spawns = 0
        /\ pc[i] = "spawn"
              => /\ opts[i].instruction # <<>>
                 /\ opts[i].instruction = strip(opts[i].instruction)
        /\ Started(i)
              => LET argv == process[i].argv
                 IN  /\ Len(argv) >= 2
                     /\ argv[Len(argv) - 1] = FlagPrint
                     /\ argv[Len(argv)] = opts[i].instruction
                     /\ opts[i].instruction # <<>>
                     /\ opts[i].instruction = strip(opts[i].instruction)

\* both cases: the instruction " x " reached the child as "x"
C27_Witness ==
    \E i \in Invocations :
        /\ Started(i)
        /\ process[i].argv = <<FlagPrint, (<<120>>)>>

\* C28: run_auggie returns a result only for a child whose exit status has
\* been collected and is 0, and never after the timeout has fired or the
\* caller has cancelled.
C28_SuccessOnlyAfterCleanExit ==
    \A i \in Invocations :
        outcome[i].kind = "AuggieRunResult"
           => /\ process[i].state = "reaped"
              /\ process[i].status = 0
              /\ outcome[i].exit_code = 0
              /\ ~obs[i].timed_out
              /\ obs[i].cancel_at = <<>>

\* C21: after augment_configure has written the permissions P for a
\* directory, the settings file of the directory exists, and a read of
\* get_workspace_settings for it that returns reports exists = True and
\* tool_permissions = P, for a list as for a single object; for a workspace
\* that was never configured it reports exists = False.
C21_SettingsRoundTrip ==
    /\ \A d \in Directories : configured[d] # None => files.settings[d] # None
    /\ (request.op = "get_workspace_settings" /\ request.pc = "done")
          => LET d == expanduser(request.workspace)
             IN  /\ (d \in Directories /\ configured[d] # None)
                       => /\ request.result.kind \in {"ok", "CancelledError"}
                          /\ request.result.kind = "ok"
                                => /\ request.result.exists
                                   /\ request.result.tool_permissions = Val(configured[d])
                 /\ (d = Workspace /\ configured[d] = None)
                       => /\ request.result.kind = "ok"
                          /\ ~request.result.exists

C21_Witness ==
    /\ request.op = "get_workspace_settings"
    /\ request.pc = "done"
    /\ request.workspace = Workspace
    /\ configured[Workspace] = Some(Rule)
    /\ request.result.exists
    /\ request.result.tool_permissions = Rule

\* the entries of a result whose path is the file id of the directory dir
Listed(commands, dir, id) == {k \in 1..Len(commands) : commands[k].path = <<dir, id>>}

\* the *.md files of the commands directory of dir
MarkdownFiles(dir) ==
    IF dir \notin Directories \/ files.commands[dir] = None THEN {}
    ELSE {id \in Val(files.commands[dir]) :
             CommandFiles[id].suffix = ".md" /\ CommandFiles[id].is_file}

\* C22: the result of get_custom_commands(W) lists every *.md file of
\* W/.augment/commands with scope "workspace" and every *.md file of the home
\* .augment/commands with scope "user", each file exactly once, and total is
\* the number of entries.
C22_EveryCommandOnce ==
    (request.op = "get_custom_commands" /\ request.pc = "done"
        /\ request.result.kind = "ok")
       => LET commands == request.result.commands
              w == expanduser(request.workspace)
          IN  /\ request.result.total = Len(commands)
              /\ \A id \in MarkdownFiles(w) :
                    \E k \in Listed(commands, w, id) : commands[k].scope = "workspace"
              /\ \A id \in MarkdownFiles(Home) :
                    \E k \in Listed(commands, Home, id) : commands[k].scope = "user"
              /\ \A k \in 1..Len(commands) :
                    /\ commands[k].path[1] \in {w, Home}
                    /\ commands[k].path[2] \in MarkdownFiles(commands[k].path[1])
                    /\ Cardinality(Listed(commands, commands[k].path[1],
                                          commands[k].path[2])) = 1

\* C25: the total_runs of the run-history resource is the number of tool
\* calls that invoke the Auggie CLI (here augment_review) since the start,
\* up to the limit of the history.
C25_EveryRunRecorded ==
    collect_auggie_history(auggie_history, 50).total_runs
        = IF metrics.tools_called < AUGGIE_HISTORY_LIMIT
          THEN metrics.tools_called ELSE AUGGIE_HISTORY_LIMIT

OperationCount(m, kind) ==
    CASE kind = "tool" -> m.tools_called
      [] kind = "resource" -> m.resources_read
      [] kind = "prompt" -> m.prompts_requested

DurationsOf(m, kind) ==
    CASE kind = "tool" -> m.tool_durations
      [] kind = "resource" -> m.resource_durations
      [] kind = "prompt" -> m.prompt_durations

OperationKinds == {"tool", "resource", "prompt"}

\* C29: after any sequence of record_operation, record_auggie_run and
\* reset_telemetry, each duration list and the run history hold at most 1000
\* entries, namely the most recent ones in the order recorded, and each
\* counter is the uncapped number of operations of its kind since the last
\* reset.
C29_MostRecentKept ==
    /\ \A kind \in OperationKinds :
          /\ Len(DurationsOf(metrics, kind)) <= METRIC_HISTORY_LIMIT
          /\ DurationsOf(metrics, kind) = LastN(recorded[kind], METRIC_HISTORY_LIMIT)
          /\ OperationCount(metrics, kind) = Len(recorded[kind])
    /\ Len(auggie_history) <= AUGGIE_HISTORY_LIMIT
    /\ auggie_history = LastN(recorded.runs, AUGGIE_HISTORY_LIMIT)

C29_Witness ==
    /\ recorded.calls > 0
    /\ Len(recorded.tool) > METRIC_HISTORY_LIMIT
    /\ metrics.tools_called = Len(recorded.tool)
    /\ Len(recorded.runs) > AUGGIE_HISTORY_LIMIT
    /\ Len(auggie_history[AUGGIE_HISTORY_LIMIT].instruction) = 200

\* the wrapped body of the request ends in this step
BodyEnds == request.pc # "done" /\ request'.pc = "done"

\* C30: a step in which the body of a tool call, a resource read or a prompt
\* render ends, by a return, an error or a cancellation, records exactly one
\* operation of the kind of the request, and no other step records anything.
C30_OneOperationAfterBody ==
    [][ /\ BodyEnds
           => /\ request'.result.kind \in {"ok", "ToolError", "ResourceError",
                                           "AttributeError", "CancelledError"}
              /\ \A kind \in OperationKinds :
                    OperationCount(metrics', kind)
                       = OperationCount(metrics, kind)
                            + (IF kind = request'.kind THEN 1 ELSE 0)
              /\ Len(DurationsOf(metrics', request'.kind))
                    = Len(DurationsOf(metrics, request'.kind)) + 1
        /\ ~BodyEnds => metrics' = metrics ]_vars

C30_Witness ==
    /\ request.pc = "done"
    /\ request.result.kind = "ResourceError"
    /\ metrics.resources_read = 2
    /\ metrics.tools_called = 1

=============================================================================
